---- MODULE Spec2Model ----
(***************************************************************************)
(* A model of the Veritas RAG artifact subsystem: the fixed-size chunker,  *)
(* the append-only chunk store with its fixed-record index and tombstones, *)
(* the BM25 retrieval pipeline and the artifact manifest.                  *)
(*                                                                         *)
(* Text is a sequence of one-character strings.  Positions are 0-based and *)
(* intervals half-open, as in the Python source.                           *)
(***************************************************************************)
EXTENDS Integers, Sequences, FiniteSets, TLC

\* ------------------------------------------------------------------------
\* Bounds of the model
\* ------------------------------------------------------------------------
MaxTextLen == 5
MaxChunkSize == 2
MaxOverlap == 2
MaxChunks == 4

\* ------------------------------------------------------------------------
\* Strings
\* ------------------------------------------------------------------------
Min(a, b) == IF a <= b THEN a ELSE b

\* Python's text[a:b] for 0 <= a, 0 <= b (the bounds are clamped to the text).
Slice(text, a, b) == SubSeq(text, Min(a, Len(text)) + 1, Min(b, Len(text)))

\* Python's text[i].
At(text, i) == text[i + 1]

\* str.isspace() on one character.
IsSpace(c) == c \in {" ", "\n", "\t", "\r"}

\* len(text.split()): the number of maximal runs of non-whitespace.
CountWords(text) ==
  Cardinality({i \in 1..Len(text) :
                 /\ ~IsSpace(text[i])
                 /\ (i = 1 \/ IsSpace(text[i - 1]))})

\* while pos < len(text) and text[pos].isspace(): pos += 1
RECURSIVE SkipSpaceFwd(_, _)
SkipSpaceFwd(text, pos) ==
  IF pos < Len(text) /\ IsSpace(At(text, pos))
    THEN SkipSpaceFwd(text, pos + 1)
    ELSE pos

\* while pos < len(text) and not text[pos].isspace(): pos += 1
RECURSIVE SkipWordFwd(_, _)
SkipWordFwd(text, pos) ==
  IF pos < Len(text) /\ ~IsSpace(At(text, pos))
    THEN SkipWordFwd(text, pos + 1)
    ELSE pos

\* while pos > 0 and text[pos - 1].isspace(): pos -= 1
RECURSIVE SkipSpaceBwd(_, _)
SkipSpaceBwd(text, pos) ==
  IF pos > 0 /\ IsSpace(At(text, pos - 1))
    THEN SkipSpaceBwd(text, pos - 1)
    ELSE pos

\* while pos > 0 and not text[pos - 1].isspace(): pos -= 1
RECURSIVE SkipWordBwd(_, _)
SkipWordBwd(text, pos) ==
  IF pos > 0 /\ ~IsSpace(At(text, pos - 1))
    THEN SkipWordBwd(text, pos - 1)
    ELSE pos

\* ------------------------------------------------------------------------
\* Identifiers (core/ids.py)
\* ------------------------------------------------------------------------
\* str.encode("utf-8") on the ASCII characters the model uses: one byte each.
\* "\\0" stands for the character U+0000.
Ord(c) ==
  CASE c = " " -> 32 [] c = "\n" -> 10 [] c = "\t" -> 9 [] c = "\r" -> 13
    [] c = "." -> 46 [] c = "/" -> 47 [] c = "\\" -> 92
    [] c = "0" -> 48 [] c = "1" -> 49 [] c = "2" -> 50 [] c = "3" -> 51
    [] c = "4" -> 52 [] c = "5" -> 53 [] c = "6" -> 54 [] c = "7" -> 55
    [] c = "8" -> 56 [] c = "9" -> 57
    [] c = "a" -> 97 [] c = "b" -> 98 [] c = "c" -> 99 [] c = "d" -> 100
    [] c = "e" -> 101 [] c = "f" -> 102 [] c = "t" -> 116 [] c = "x" -> 120
    [] c = "A" -> 65 [] c = "B" -> 66 [] c = "\\0" -> 0

\* The bytes that are the UTF-8 encoding of a character of the model.
CharBytes == {0, 9, 10, 13, 32, 46, 47, 48, 49, 50, 51, 52, 53, 54, 55, 56, 57,
              65, 66, 92, 97, 98, 99, 100, 101, 102, 116, 120}

Chr(b) ==
  CASE b = 32 -> " " [] b = 10 -> "\n" [] b = 9 -> "\t" [] b = 13 -> "\r"
    [] b = 46 -> "." [] b = 47 -> "/" [] b = 92 -> "\\"
    [] b = 48 -> "0" [] b = 49 -> "1" [] b = 50 -> "2" [] b = 51 -> "3"
    [] b = 52 -> "4" [] b = 53 -> "5" [] b = 54 -> "6" [] b = 55 -> "7"
    [] b = 56 -> "8" [] b = 57 -> "9"
    [] b = 97 -> "a" [] b = 98 -> "b" [] b = 99 -> "c" [] b = 100 -> "d"
    [] b = 101 -> "e" [] b = 102 -> "f" [] b = 116 -> "t" [] b = 120 -> "x"
    [] b = 65 -> "A" [] b = 66 -> "B" [] b = 0 -> "\\0"

Utf8Encode(text) == SubSeq([i \in 1..Len(text) |-> Ord(text[i])], 1, Len(text))

Utf8Decode(bytes) == SubSeq([i \in 1..Len(bytes) |-> Chr(bytes[i])], 1, Len(bytes))

HexChars == <<"0", "1", "2", "3", "4", "5", "6", "7", "8", "9",
              "a", "b", "c", "d", "e", "f">>

\* The digest of bytes[lo..hi].  hashlib.sha256 is library code: the model
\* keeps what the callers rely on (a deterministic function of the bytes and
\* their positions alone) in a 24-bit state.
RECURSIVE DigestState(_, _, _)
DigestState(bytes, lo, hi) ==
  IF lo > hi THEN 7
  ELSE IF lo = hi THEN bytes[lo] * (((lo * 31) % 97) + 1)
  ELSE (DigestState(bytes, lo, (lo + hi) \div 2)
        + DigestState(bytes, ((lo + hi) \div 2) + 1, hi)) % 16777216

\* hashlib.sha256(data).hexdigest(): 64 lowercase hex characters.
Sha256HexOfBytes(data) ==
  LET h == DigestState(data, 1, Len(data))
      Pow16(k) == CASE k = 0 -> 1 [] k = 1 -> 16 [] k = 2 -> 256 [] k = 3 -> 4096
                    [] k = 4 -> 65536 [] k = 5 -> 1048576
  IN  SubSeq([i \in 1..64 |-> HexChars[((h \div Pow16((i - 1) % 6)) % 16) + 1]],
             1, 64)

\* hashlib.sha256(text.encode("utf-8")).hexdigest()
Sha256Hex(text) == Sha256HexOfBytes(Utf8Encode(text))

\* The loop of normalize_path over the "/"-separated parts[i..].
RECURSIVE NormalizeParts(_, _, _)
NormalizeParts(parts, i, out) ==
  IF i > Len(parts) THEN out
  ELSE IF parts[i] = <<".">> THEN NormalizeParts(parts, i + 1, out)
  ELSE IF parts[i] = <<".", ".">>
    THEN NormalizeParts(parts, i + 1,
                        IF out # <<>> THEN SubSeq(out, 1, Len(out) - 1) ELSE out)
  ELSE NormalizeParts(parts, i + 1, Append(out, parts[i]))

\* str.split("/")
RECURSIVE SplitSlash(_, _, _)
SplitSlash(text, i, cur) ==
  IF i > Len(text) THEN <<cur>>
  ELSE IF text[i] = "/" THEN <<cur>> \o SplitSlash(text, i + 1, <<>>)
  ELSE SplitSlash(text, i + 1, Append(cur, text[i]))

\* "/".join(parts)
RECURSIVE JoinSlash(_)
JoinSlash(parts) ==
  IF parts = <<>> THEN <<>>
  ELSE IF Len(parts) = 1 THEN parts[1]
  ELSE parts[1] \o <<"/">> \o JoinSlash(Tail(parts))

\* A normalize_path that only converts the separators.
normalize_path_separators_only(rel_path) ==
  SubSeq([i \in 1..Len(rel_path) |->
            IF rel_path[i] = "\\" THEN "/" ELSE rel_path[i]],
         1, Len(rel_path))

normalize_path(rel_path) ==
  LET normalized == SubSeq([i \in 1..Len(rel_path) |->
                              IF rel_path[i] = "\\" THEN "/" ELSE rel_path[i]],
                            1, Len(rel_path))
  IN  JoinSlash(NormalizeParts(SplitSlash(normalized, 1, <<>>), 1, <<>>))

generate_doc_uid(rel_path) == SubSeq(Sha256Hex(normalize_path(rel_path)), 1, 16)

generate_doc_id(doc_uid, normalized_text_hash) ==
  SubSeq(Sha256Hex(doc_uid \o normalized_text_hash), 1, 16)

\* Decimal is str(n) for n >= 0.
generate_chunk_id(doc_uid, offset_start, offset_end, chunk_text) ==
  LET RECURSIVE Decimal(_)
      Decimal(n) ==
        IF n < 10 THEN <<HexChars[n + 1]>>
        ELSE Decimal(n \div 10) \o <<HexChars[(n % 10) + 1]>>
  IN  SubSeq(Sha256Hex(doc_uid \o Decimal(offset_start) \o Decimal(offset_end)
                       \o Sha256Hex(chunk_text)), 1, 16)

\* ------------------------------------------------------------------------
\* Chunker (ingestion/chunker.py)
\* ------------------------------------------------------------------------
\* Optional[int]: None is the empty tuple, a value n is <<n>>.
None == <<>>

Some(n) == <<n>>

\* A chunk end that is always the end of the text.
FindChunkEndOfText(text, start_pos, target_words) == Len(text)

\* The loop of _find_chunk_end.
RECURSIVE FindChunkEndLoop(_, _, _, _)
FindChunkEndLoop(text, pos, word_count, target_words) ==
  IF pos < Len(text) /\ word_count < target_words
    THEN FindChunkEndLoop(text, SkipWordFwd(text, SkipSpaceFwd(text, pos)),
                          word_count + 1, target_words)
    ELSE pos

FindChunkEnd(text, start_pos, target_words) ==
  IF CountWords(Slice(text, start_pos, Len(text))) <= target_words
    THEN Len(text)
    ELSE FindChunkEndLoop(text, start_pos, 0, target_words)

\* An overlap loop that starts the next chunk one character after the end.
FindChunkStartLoopPastEnd(text, pos, word_count, target_words) ==
  Min(pos + 1, Len(text))

\* The loop of _find_chunk_start.
RECURSIVE FindChunkStartLoop(_, _, _, _)
FindChunkStartLoop(text, pos, word_count, target_words) ==
  IF pos > 0 /\ word_count < target_words
    THEN FindChunkStartLoop(text, SkipWordBwd(text, SkipSpaceBwd(text, pos)),
                            word_count + 1, target_words)
    ELSE pos

\* An overlap that always goes back to the start of the text.
FindChunkStartOfText(text, end_pos, target_words) == 0

FindChunkStart(text, end_pos, target_words) ==
  IF CountWords(Slice(text, 0, end_pos)) <= target_words
    THEN 0
    ELSE FindChunkStartLoop(text, end_pos, 0, target_words)

\* A page overlaps the chunk [offset_start, offset_end).
PageOverlaps(page, offset_start, offset_end) ==
  ~(page.offset_end <= offset_start \/ page.offset_start >= offset_end)

\* The loop of _derive_page_range over pages[i..], carrying (page_start, page_end).
RECURSIVE DerivePageLoop(_, _, _, _, _)
DerivePageLoop(pages, i, range, offset_start, offset_end) ==
  IF i > Len(pages) THEN range
  ELSE IF PageOverlaps(pages[i], offset_start, offset_end)
    THEN DerivePageLoop(pages, i + 1,
           <<IF range[1] = None THEN Some(pages[i].page_number) ELSE range[1],
             Some(pages[i].page_number)>>,
           offset_start, offset_end)
    ELSE DerivePageLoop(pages, i + 1, range, offset_start, offset_end)

DerivePageRange(pages, offset_start, offset_end) ==
  IF pages = <<>> THEN <<None, None>>
  ELSE DerivePageLoop(pages, 1, <<None, None>>, offset_start, offset_end)


SourceRef(source_path, offset_start, offset_end, page_start, page_end) ==
  [source_path |-> source_path, offset_start |-> offset_start,
   offset_end |-> offset_end, page_start |-> page_start, page_end |-> page_end]

\* str.strip(): what a chunker that trimmed its chunks would keep.
RECURSIVE Strip(_)
Strip(text) ==
  IF text = <<>> THEN text
  ELSE IF IsSpace(text[1]) THEN Strip(Tail(text))
  ELSE IF IsSpace(text[Len(text)]) THEN Strip(SubSeq(text, 1, Len(text) - 1))
  ELSE text

\* A normalizer that leaves the whitespace at the ends in place.
normalize_text_unstripped(text) ==
  LET IsBlank(c) == c \in {" ", "\t", "\\xa0"}
      Kept(i) == ~(i > 1 /\ IsBlank(text[i]) /\ IsBlank(text[i - 1]))
      kept == SelectSeq(SubSeq([i \in 1..Len(text) |-> i], 1, Len(text)), Kept)
  IN  SubSeq([k \in 1..Len(kept) |->
                IF IsBlank(text[kept[k]]) THEN " "
                ELSE IF text[kept[k]] = "\r" THEN "\n" ELSE text[kept[k]]],
             1, Len(kept))

\* normalize_text(text) (ingestion/normalizer.py).  "\\xa0" stands for the
\* no-break space U+00A0, which NFKC turns into a space; the other
\* characters of the model are their own NFKC form.
normalize_text(text) ==
  LET Nfkc(c) == IF c = "\\xa0" THEN " " ELSE c
      nfkc == SubSeq([i \in 1..Len(text) |-> Nfkc(text[i])], 1, Len(text))
      \* re.sub(r"[ \t]+", " ", ...): of every run the first character
      \* stays, as a space.
      IsBlank(c) == c \in {" ", "\t"}
      HeadsRun(i) == ~(i > 1 /\ IsBlank(nfkc[i]) /\ IsBlank(nfkc[i - 1]))
      heads == SelectSeq(SubSeq([i \in 1..Len(nfkc) |-> i], 1, Len(nfkc)),
                         HeadsRun)
      collapsed == SubSeq([k \in 1..Len(heads) |->
                             IF IsBlank(nfkc[heads[k]]) THEN " "
                             ELSE nfkc[heads[k]]],
                          1, Len(heads))
      \* .replace("\r\n", "\n").replace("\r", "\n"): a CR before an LF goes,
      \* any other CR becomes an LF.
      NotCrOfCrLf(i) == ~(/\ collapsed[i] = "\r"
                          /\ i < Len(collapsed)
                          /\ collapsed[i + 1] = "\n")
      lines == SelectSeq(SubSeq([i \in 1..Len(collapsed) |-> i],
                                1, Len(collapsed)), NotCrOfCrLf)
      replaced == SubSeq([k \in 1..Len(lines) |->
                            IF collapsed[lines[k]] = "\r" THEN "\n"
                            ELSE collapsed[lines[k]]],
                         1, Len(lines))
  IN  Strip(replaced)

\* A chunker that strips the slice it stores.
NewChunkTrimmed(document, current_pos, end_pos, chunk_index) ==
  LET range == DerivePageRange(document.pages, current_pos, end_pos)
  IN  [chunk_id |-> generate_chunk_id(document.doc_uid, current_pos, end_pos,
                      Slice(document.normalized_text, current_pos, end_pos)),
       doc_uid |-> document.doc_uid, doc_id |-> document.doc_id,
       text |-> Strip(Slice(document.normalized_text, current_pos, end_pos)),
       offset_start |-> current_pos, offset_end |-> end_pos,
       chunk_index |-> chunk_index,
       source_ref |-> SourceRef(document.source_path, current_pos, end_pos,
                                range[1], range[2]),
       page_start |-> range[1], page_end |-> range[2]]

\* A chunker that derives the chunk id from doc_id.
NewChunkIdFromDocId(document, current_pos, end_pos, chunk_index) ==
  LET chunk_text == Slice(document.normalized_text, current_pos, end_pos)
      range == DerivePageRange(document.pages, current_pos, end_pos)
  IN  [chunk_id |-> generate_chunk_id(document.doc_id, current_pos, end_pos,
                                      chunk_text),
       doc_uid |-> document.doc_uid, doc_id |-> document.doc_id,
       text |-> chunk_text,
       offset_start |-> current_pos, offset_end |-> end_pos,
       chunk_index |-> chunk_index,
       source_ref |-> SourceRef(document.source_path, current_pos, end_pos,
                                range[1], range[2]),
       page_start |-> range[1], page_end |-> range[2]]

\* The Chunk built by one iteration of chunk_document's loop.
NewChunk(document, current_pos, end_pos, chunk_index) ==
  LET chunk_text == Slice(document.normalized_text, current_pos, end_pos)
      range == DerivePageRange(document.pages, current_pos, end_pos)
  IN  [chunk_id |-> generate_chunk_id(document.doc_uid, current_pos, end_pos,
                                      chunk_text),
       doc_uid |-> document.doc_uid, doc_id |-> document.doc_id,
       text |-> chunk_text,
       offset_start |-> current_pos, offset_end |-> end_pos,
       chunk_index |-> chunk_index,
       source_ref |-> SourceRef(document.source_path, current_pos, end_pos,
                                range[1], range[2]),
       page_start |-> range[1], page_end |-> range[2]]

\* A Document as the parsers build it from a relative path and its text.
MakeDocument(rel_path, normalized_text, pages) ==
  [doc_uid |-> generate_doc_uid(rel_path),
   doc_id |-> generate_doc_id(generate_doc_uid(rel_path),
                              Sha256Hex(normalized_text)),
   source_path |-> rel_path,
   normalized_text |-> normalized_text,
   pages |-> pages]

Page(page_number, offset_start, offset_end) ==
  [page_number |-> page_number, offset_start |-> offset_start,
   offset_end |-> offset_end]

\* chunk_document run to completion: the chunks of one document, in order.
RECURSIVE ChunkLoop(_, _, _, _, _, _)
ChunkLoop(document, chunk_size, chunk_overlap, current_pos, chunk_index, chunks) ==
  LET text == document.normalized_text
      end_pos == FindChunkEnd(text, current_pos, chunk_size)
  IN  IF Len(chunks) >= MaxChunks THEN chunks
      ELSE IF ~(current_pos < Len(text)) \/ end_pos <= current_pos THEN chunks
      ELSE IF end_pos >= Len(text)
        THEN Append(chunks, NewChunk(document, current_pos, end_pos, chunk_index))
      ELSE ChunkLoop(document, chunk_size, chunk_overlap,
                     FindChunkStart(text, end_pos, chunk_overlap),
                     chunk_index + 1,
                     Append(chunks,
                            NewChunk(document, current_pos, end_pos, chunk_index)))

chunk_document(document, chunk_size, chunk_overlap) ==
  IF CountWords(document.normalized_text) = 0 THEN <<>>
  ELSE ChunkLoop(document, chunk_size, chunk_overlap, 0, 0, <<>>)

\* ------------------------------------------------------------------------
\* Compression codec and checksum (storage/compression.py, xxhash)
\* ------------------------------------------------------------------------
\* The four magic bytes that open a zstd frame.
ZstdMagic == <<40, 181, 47, 253>>

\* compress_data: one self-contained frame: the magic, the content size and
\* the content stored raw.
compress_data(data) == ZstdMagic \o <<Len(data)>> \o data

\* decompress_data: the content of the frame at the head of the buffer, or a
\* ZstdError (ok = FALSE) when the buffer does not start with a complete frame.
decompress_data(compressed_data) ==
  IF /\ Len(compressed_data) >= 5
     /\ SubSeq(compressed_data, 1, 4) = ZstdMagic
     /\ Len(compressed_data) >= 5 + compressed_data[5]
    THEN [ok |-> TRUE,
          data |-> SubSeq(compressed_data, 6, 5 + compressed_data[5])]
    ELSE [ok |-> FALSE, data |-> <<>>]

\* xxhash.xxh32(data).intdigest(): library code, kept as a deterministic
\* digest of the bytes in a 16-bit state.
xxh32(data) ==
  LET RECURSIVE Xxh32From(_, _)
      Xxh32From(i, state) ==
        IF i > Len(data) THEN state
        ELSE Xxh32From(i + 1, (state * 31 + data[i]) % 65536)
  IN  Xxh32From(1, 5381)

\* ------------------------------------------------------------------------
\* Chunk store (storage/chunk_store.py): record format
\* ------------------------------------------------------------------------
\* The width of an id field of the index record ("32s").
IdFieldBytes == 32

\* INDEX_RECORD_SIZE = struct.calcsize("<32s32s32sQIIBQQIii")
INDEX_RECORD_SIZE == 141

\* struct.pack of an unsigned field ("Q", "I", "B"): little-endian, width bytes.
RECURSIVE PackUnsigned(_, _)
PackUnsigned(n, width) ==
  IF width = 0 THEN <<>>
  ELSE <<n % 256>> \o PackUnsigned(n \div 256, width - 1)

\* struct.pack of a signed field ("i"): two's complement, little-endian.
PackSigned(n, width) ==
  IF n >= 0 THEN PackUnsigned(n, width)
  ELSE LET bytes == PackUnsigned((-n) - 1, width)
       IN  SubSeq([i \in 1..width |-> 255 - bytes[i]], 1, width)

\* struct.unpack of an unsigned little-endian field.
RECURSIVE UnpackUnsigned(_)
UnpackUnsigned(bytes) ==
  IF bytes = <<>> THEN 0
  ELSE bytes[1] + 256 * UnpackUnsigned(Tail(bytes))

\* struct.unpack of a signed little-endian field.
UnpackSigned(bytes) ==
  IF bytes[Len(bytes)] < 128 THEN UnpackUnsigned(bytes)
  ELSE -(UnpackUnsigned(SubSeq([i \in 1..Len(bytes) |-> 255 - bytes[i]],
                               1, Len(bytes)))) - 1

\* id.encode("utf-8")[:32].ljust(32, b"\0")
PackId(id) ==
  LET bytes == Utf8Encode(id)
  IN  SubSeq([i \in 1..IdFieldBytes |-> IF i <= Len(bytes) THEN bytes[i] ELSE 0],
             1, IdFieldBytes)

\* bytes.rstrip(b"\0").decode("utf-8")
UnpackId(bytes) ==
  LET RECURSIVE RStripNul(_)
      RStripNul(rest) ==
        IF rest # <<>> /\ rest[Len(rest)] = 0
          THEN RStripNul(SubSeq(rest, 1, Len(rest) - 1))
          ELSE rest
  IN  Utf8Decode(RStripNul(bytes))

\* x if x is not None else -1
OptToInt(x) == IF x = None THEN -1 ELSE x[1]

\* A decoding that keeps -1 as a page number.
IntToOptKeepingMinusOne(n) == Some(n)

\* x if x != -1 else None
IntToOpt(n) == IF n # -1 THEN Some(n) ELSE None

\* The 141 bytes _write_index_record packs for its arguments.
PackRecord(chunk_id, doc_uid, doc_id, store_offset, length, checksum, is_active, offset_start, offset_end, chunk_index, page_start, page_end) ==
  PackId(chunk_id) \o PackId(doc_uid) \o PackId(doc_id)
  \o PackUnsigned(store_offset, 8) \o PackUnsigned(length, 4)
  \o PackUnsigned(checksum, 4) \o PackUnsigned(IF is_active THEN 1 ELSE 0, 1)
  \o PackUnsigned(offset_start, 8) \o PackUnsigned(offset_end, 8)
  \o PackUnsigned(chunk_index, 4) \o PackSigned(page_start, 4)
  \o PackSigned(page_end, 4)

\* The chunk id of one 141-byte record, as load_index decodes it.
RecordChunkId(record_bytes) == UnpackId(SubSeq(record_bytes, 1, 32))

\* The in-memory record load_index builds from one 141-byte record.
UnpackRecord(record_bytes) ==
  [doc_uid |-> UnpackId(SubSeq(record_bytes, 33, 64)),
   doc_id |-> UnpackId(SubSeq(record_bytes, 65, 96)),
   store_offset |-> UnpackUnsigned(SubSeq(record_bytes, 97, 104)),
   length |-> UnpackUnsigned(SubSeq(record_bytes, 105, 108)),
   checksum |-> UnpackUnsigned(SubSeq(record_bytes, 109, 112)),
   is_active |-> (record_bytes[113] # 0),
   offset_start |-> UnpackUnsigned(SubSeq(record_bytes, 114, 121)),
   offset_end |-> UnpackUnsigned(SubSeq(record_bytes, 122, 129)),
   chunk_index |-> UnpackUnsigned(SubSeq(record_bytes, 130, 133)),
   page_start |-> IntToOpt(UnpackSigned(SubSeq(record_bytes, 134, 137))),
   page_end |-> IntToOpt(UnpackSigned(SubSeq(record_bytes, 138, 141)))]

\* The in-memory record write_chunk stores for a chunk.
MemRecord(chunk, store_offset, length, checksum) ==
  [doc_uid |-> chunk.doc_uid, doc_id |-> chunk.doc_id,
   store_offset |-> store_offset, length |-> length, checksum |-> checksum,
   is_active |-> TRUE,
   offset_start |-> chunk.offset_start, offset_end |-> chunk.offset_end,
   chunk_index |-> chunk.chunk_index,
   page_start |-> chunk.page_start, page_end |-> chunk.page_end]

\* ------------------------------------------------------------------------
\* Files and dictionaries
\* ------------------------------------------------------------------------
\* A directory is a function from the names of the files that exist to their
\* contents; chunks.bin and chunks.idx hold bytes.
BinFile == "chunks.bin"

IdxFile == "chunks.idx"

MetaFile == "docs.meta"

\* path.exists()
Exists(dir, name) == name \in DOMAIN dir

\* dict[key] = value
DictPut(dict, key, value) ==
  [k \in DOMAIN dict \cup {key} |-> IF k = key THEN value ELSE dict[k]]

\* dict.get(key, default)
DictGet(dict, key, default) == IF key \in DOMAIN dict THEN dict[key] ELSE default

\* A size that is always taken to be 0.
FileSizeZero(dir, name) == 0

\* path.stat().st_size if path.exists() else 0
FileSize(dir, name) == IF Exists(dir, name) THEN Len(dir[name]) ELSE 0

\* open(path, "wb").write(data): the file holds data alone.
OverwriteFile(dir, name, data) == DictPut(dir, name, data)

\* A write that opens the file in "wb" mode: what it held is lost.
AppendFileTruncating(dir, name, data) == DictPut(dir, name, data)

\* open(path, "ab").write(data): the file is created if missing, and data goes
\* after everything it holds.
AppendFile(dir, name, data) == DictPut(dir, name, DictGet(dir, name, <<>>) \o data)

\* ------------------------------------------------------------------------
\* Chunk store (storage/chunk_store.py): operations
\* ------------------------------------------------------------------------
\* The memory of a ChunkStore right after __init__.
EmptyStore ==
  [index |-> <<>>, doc_uid_to_chunks |-> <<>>, doc_id_to_source_path |-> <<>>]

\* An operation's effect: the store's memory and the directory after it.
Effect(store, dir) == [store |-> store, dir |-> dir]

\* write_chunk(chunk, compressed_data, checksum)
write_chunk(store, dir, chunk, compressed_data, checksum) ==
  LET store_offset == FileSize(dir, BinFile)
      length == Len(compressed_data)
      record == PackRecord(chunk.chunk_id, chunk.doc_uid, chunk.doc_id,
                           store_offset, length, checksum, TRUE,
                           chunk.offset_start, chunk.offset_end,
                           chunk.chunk_index,
                           OptToInt(chunk.page_start), OptToInt(chunk.page_end))
  IN  Effect(
        [store EXCEPT
           !.index = DictPut(store.index, chunk.chunk_id,
                             MemRecord(chunk, store_offset, length, checksum)),
           !.doc_uid_to_chunks =
              DictPut(store.doc_uid_to_chunks, chunk.doc_uid,
                      Append(DictGet(store.doc_uid_to_chunks, chunk.doc_uid, <<>>),
                             chunk.chunk_id))],
        AppendFile(AppendFile(dir, BinFile, compressed_data), IdxFile, record))

\* A tombstone_chunk that marks the chunk in memory and appends nothing.
tombstone_chunk_in_memory(store, dir, chunk_id) ==
  IF chunk_id \notin DOMAIN store.index THEN Effect(store, dir)
  ELSE Effect([store EXCEPT !.index[chunk_id].is_active = FALSE], dir)

\* tombstone_chunk(chunk_id)
tombstone_chunk(store, dir, chunk_id) ==
  IF chunk_id \notin DOMAIN store.index THEN Effect(store, dir)
  ELSE LET record == store.index[chunk_id]
       IN  Effect(
             [store EXCEPT !.index[chunk_id].is_active = FALSE],
             AppendFile(dir, IdxFile,
               PackRecord(chunk_id, record.doc_uid, record.doc_id,
                          record.store_offset, record.length, record.checksum,
                          FALSE, record.offset_start, record.offset_end,
                          record.chunk_index,
                          OptToInt(record.page_start), OptToInt(record.page_end))))

\* The loop of tombstone_document over chunk_ids[i..].
RECURSIVE TombstoneEach(_, _, _, _)
TombstoneEach(store, dir, chunk_ids, i) ==
  IF i > Len(chunk_ids) THEN Effect(store, dir)
  ELSE LET after == tombstone_chunk(store, dir, chunk_ids[i])
       IN  TombstoneEach(after.store, after.dir, chunk_ids, i + 1)

\* A tombstone_document that stops after the first chunk of the document.
tombstone_document_first_chunk(store, dir, doc_uid) ==
  IF doc_uid \notin DOMAIN store.doc_uid_to_chunks THEN Effect(store, dir)
  ELSE tombstone_chunk(store, dir, store.doc_uid_to_chunks[doc_uid][1])

\* tombstone_document(doc_uid)
tombstone_document(store, dir, doc_uid) ==
  IF doc_uid \notin DOMAIN store.doc_uid_to_chunks THEN Effect(store, dir)
  ELSE TombstoneEach(store, dir, store.doc_uid_to_chunks[doc_uid], 1)

\* One entry of docs.meta: the metadata kept under a doc_uid.
DocInfo(document) ==
  [doc_uid |-> document.doc_uid, doc_id |-> document.doc_id,
   source_path |-> document.source_path]

\* save_docs_meta(docs_meta): docs.meta is rewritten with the entries, in order.
save_docs_meta(dir, docs_meta) == OverwriteFile(dir, MetaFile, docs_meta)

\* load_docs_meta()
load_docs_meta(dir) == IF ~Exists(dir, MetaFile) THEN <<>> ELSE dir[MetaFile]

\* The loop of load_index over the entries of docs.meta from i on.
RECURSIVE LoadSourcePaths(_, _, _)
LoadSourcePaths(docs_meta, i, map) ==
  IF i > Len(docs_meta) THEN map
  ELSE LoadSourcePaths(docs_meta, i + 1,
                       DictPut(map, docs_meta[i].doc_id, docs_meta[i].source_path))

\* The i-th 141-byte record of chunks.idx.
RecordAt(idx, i) ==
  SubSeq(idx, (i - 1) * INDEX_RECORD_SIZE + 1, i * INDEX_RECORD_SIZE)

\* A load loop that keeps the first record it meets for a chunk id.
RECURSIVE LoadRecordsFirstWins(_, _, _)
LoadRecordsFirstWins(idx, i, store) ==
  IF i * INDEX_RECORD_SIZE > Len(idx) THEN store
  ELSE LET chunk_id == RecordChunkId(RecordAt(idx, i))
           record == UnpackRecord(RecordAt(idx, i))
           old == DictGet(store.doc_uid_to_chunks, record.doc_uid, <<>>)
       IN  LoadRecordsFirstWins(idx, i + 1,
             IF chunk_id \in DOMAIN store.index THEN store
             ELSE [store EXCEPT
                     !.index = DictPut(store.index, chunk_id, record),
                     !.doc_uid_to_chunks =
                        DictPut(store.doc_uid_to_chunks, record.doc_uid,
                                Append(old, chunk_id))])

\* The record loop of load_index: reads 141 bytes at a time from record i on
\* and stops at the first short read.
RECURSIVE LoadRecords(_, _, _)
LoadRecords(idx, i, store) ==
  IF i * INDEX_RECORD_SIZE > Len(idx) THEN store
  ELSE LET chunk_id == RecordChunkId(RecordAt(idx, i))
           record == UnpackRecord(RecordAt(idx, i))
           old == DictGet(store.doc_uid_to_chunks, record.doc_uid, <<>>)
       IN  LoadRecords(idx, i + 1,
             [store EXCEPT
                !.index = DictPut(store.index, chunk_id, record),
                !.doc_uid_to_chunks =
                   DictPut(store.doc_uid_to_chunks, record.doc_uid,
                           IF \E k \in 1..Len(old) : old[k] = chunk_id
                             THEN old ELSE Append(old, chunk_id))])

\* load_index()
load_index(store, dir) ==
  IF ~Exists(dir, IdxFile) THEN store
  ELSE LoadRecords(dir[IdxFile], 1,
                   [index |-> <<>>, doc_uid_to_chunks |-> <<>>,
                    doc_id_to_source_path |->
                      LoadSourcePaths(load_docs_meta(dir), 1, <<>>)])

\* The result of a call: kind is "chunk", "none" or "error".
Result(kind, value) == [kind |-> kind, value |-> value]

\* read_chunk(chunk_id): a Chunk, None, or the exception raised.
read_chunk(store, dir, chunk_id) ==
  IF chunk_id \notin DOMAIN store.index THEN Result("none", <<>>)
  ELSE LET record == store.index[chunk_id]
           compressed_data ==
             Slice(dir[BinFile], record.store_offset,
                   record.store_offset + record.length)
           decompressed == decompress_data(compressed_data)
           \* v if v != -1 else None, on a stored Optional[int].
           OptDropMinusOne(x) == IF x # Some(-1) THEN x ELSE None
           page_start == OptDropMinusOne(record.page_start)
           page_end == OptDropMinusOne(record.page_end)
       IN  IF ~record.is_active THEN Result("none", <<>>)
           ELSE IF ~Exists(dir, BinFile)
             THEN Result("error", <<"FileNotFoundError">>)
           ELSE IF ~decompressed.ok THEN Result("error", <<"ZstdError">>)
           ELSE IF \E i \in 1..Len(decompressed.data) :
                     decompressed.data[i] \notin CharBytes
             THEN Result("error", <<"UnicodeDecodeError">>)
           ELSE IF xxh32(decompressed.data) # record.checksum
             THEN Result("error", <<"ValueError">>)
           ELSE Result("chunk",
                  <<[chunk_id |-> chunk_id, doc_uid |-> record.doc_uid,
                     doc_id |-> record.doc_id,
                     text |-> Utf8Decode(decompressed.data),
                     offset_start |-> record.offset_start,
                     offset_end |-> record.offset_end,
                     chunk_index |-> record.chunk_index,
                     source_ref |->
                       SourceRef(DictGet(store.doc_id_to_source_path,
                                         record.doc_id, <<>>),
                                 record.offset_start, record.offset_end,
                                 page_start, page_end),
                     page_start |-> page_start, page_end |-> page_end]>>)

\* validate_invariants(): the chunk ids it reports an error for.
validate_invariants(store, dir) ==
  IF ~Exists(dir, BinFile) THEN {}
  ELSE {chunk_id \in DOMAIN store.index :
          /\ store.index[chunk_id].is_active
          /\ store.index[chunk_id].store_offset + store.index[chunk_id].length
               > Len(dir[BinFile])}

\* ------------------------------------------------------------------------
\* Tokenizer and BM25 index (search/tokenizer.py, search/bm25_index.py)
\* ------------------------------------------------------------------------
\* str.lower() on one character.
Lower(c) == CASE c = "A" -> "a" [] c = "B" -> "b" [] OTHER -> c

\* re.findall(r"\w+", text): the maximal runs of word characters (letters,
\* digits and underscore) from i on.
RECURSIVE FindAllWords(_, _, _, _)
FindAllWords(text, i, word, words) ==
  IF i > Len(text) THEN (IF word = <<>> THEN words ELSE Append(words, word))
  ELSE IF text[i] \notin {" ", "\n", "\t", "\r", ".", "/", "\\"}
    THEN FindAllWords(text, i + 1, Append(word, text[i]), words)
  ELSE FindAllWords(text, i + 1, <<>>,
                    IF word = <<>> THEN words ELSE Append(words, word))

\* BM25Tokenizer.tokenize; of the default stopword set, "a", "be" and "at" are
\* the words the model's alphabet can spell.
tokenize(use_stopwords, text) ==
  LET text_lower == SubSeq([i \in 1..Len(text) |-> Lower(text[i])], 1, Len(text))
      tokens == FindAllWords(text_lower, 1, <<>>, <<>>)
      NotStopWord(t) == t \notin {<<"a">>, <<"b", "e">>, <<"a", "t">>}
  IN  IF use_stopwords THEN SelectSeq(tokens, NotStopWord) ELSE tokens

\* BM25Tokenizer.tokenize_query
tokenize_query(use_stopwords, query) == tokenize(use_stopwords, query)

\* A BM25Index right after __init__: nothing built.
NewBm25Index(use_stopwords) ==
  [built |-> FALSE, use_stopwords |-> use_stopwords, chunk_ids |-> <<>>,
   corpus |-> <<>>]

\* BM25Index.build(chunks): the tokenised corpus and the parallel chunk_id
\* list; an exception for an empty list.
build(index, chunks) ==
  IF chunks = <<>> THEN Result("error", <<"ValueError">>)
  ELSE Result("ok",
         <<[built |-> TRUE, use_stopwords |-> index.use_stopwords,
            chunk_ids |-> SubSeq([i \in 1..Len(chunks) |-> chunks[i].chunk_id],
                                 1, Len(chunks)),
            corpus |-> SubSeq([i \in 1..Len(chunks) |->
                                 tokenize(index.use_stopwords, chunks[i].text)],
                              1, Len(chunks))]>>)

\* BM25Okapi's idf of a term (rank_bm25 is library code): 0 for a term the
\* corpus does not hold, otherwise a weight that falls as more documents hold
\* the term, with the floor the library gives to terms of over half of them.
Idf(corpus, term) ==
  LET n == Cardinality({d \in 1..Len(corpus) :
                          \E i \in 1..Len(corpus[d]) : corpus[d][i] = term})
  IN  IF n = 0 THEN 0
      ELSE IF 2 * n > Len(corpus) THEN 1
      ELSE 1 + (4 * (2 * Len(corpus) - 2 * n + 1)) \div (2 * n + 1)

\* BM25Okapi.get_scores for one query token and one document, in thousandths,
\* with k1 = 1.5 and b = 0.75:
\* idf * tf * (k1 + 1) / (tf + k1 * (1 - b + b * doc_len / avgdl)).
TermScore(corpus, d, term) ==
  LET tf == Cardinality({i \in 1..Len(corpus[d]) : corpus[d][i] = term})
      RECURSIVE TotalLen(_)
      TotalLen(from) ==
        IF from > Len(corpus) THEN 0
        ELSE Len(corpus[from]) + TotalLen(from + 1)
      total == TotalLen(1)
  IN  IF tf = 0 THEN 0
      ELSE Idf(corpus, term)
           * ((20000 * tf * total)
              \div (8 * tf * total + 3 * total + 9 * Len(corpus[d]) * Len(corpus)))

\* BM25Okapi.get_scores: the sum over the query tokens from i on.
RECURSIVE GetScore(_, _, _, _)
GetScore(corpus, d, query_tokens, i) ==
  IF i > Len(query_tokens) THEN 0
  ELSE TermScore(corpus, d, query_tokens[i])
       + GetScore(corpus, d, query_tokens, i + 1)

\* A sort that puts a document before the earlier documents of equal score.
RECURSIVE SortByScoreTiesReversed(_, _, _)
SortByScoreTiesReversed(scores, d, order) ==
  IF d > Len(scores) THEN order
  ELSE LET before == Cardinality({k \in 1..Len(order) :
                                    scores[order[k]] > scores[d]})
       IN  SortByScoreTiesReversed(scores, d + 1,
                                   SubSeq(order, 1, before) \o <<d>>
                                   \o SubSeq(order, before + 1, Len(order)))

\* sorted(range(n), key=scores, reverse=True): a stable sort, so documents of
\* equal score keep their corpus order; order holds the documents before d.
RECURSIVE SortByScore(_, _, _)
SortByScore(scores, d, order) ==
  IF d > Len(scores) THEN order
  ELSE LET before == Cardinality({k \in 1..Len(order) :
                                    scores[order[k]] >= scores[d]})
       IN  SortByScore(scores, d + 1,
                       SubSeq(order, 1, before) \o <<d>>
                       \o SubSeq(order, before + 1, Len(order)))

\* BM25Index.search(query, top_k): (chunk_id, score) pairs, best first.
search(index, query, top_k) ==
  LET query_tokens == tokenize_query(index.use_stopwords, query)
      scores == SubSeq([d \in 1..Len(index.corpus) |->
                          GetScore(index.corpus, d, query_tokens, 1)],
                       1, Len(index.corpus))
      sorted == SortByScore(scores, 1, <<>>)
      top_indices ==
        SubSeq(sorted, 1, IF top_k >= 0 THEN Min(top_k, Len(sorted))
                          ELSE IF Len(sorted) + top_k >= 0
                                 THEN Len(sorted) + top_k ELSE 0)
  IN  IF ~index.built THEN Result("error", <<"ValueError">>)
      ELSE IF query_tokens = <<>> THEN Result("ok", <<>>)
      ELSE Result("ok",
             SubSeq([k \in 1..Len(top_indices) |->
                       [chunk_id |-> index.chunk_ids[top_indices[k]],
                        score |-> scores[top_indices[k]]]],
                    1, Len(top_indices)))

\* ------------------------------------------------------------------------
\* Query processing (search/query.py, search/retrieval.py)
\* ------------------------------------------------------------------------
\* a < b for two strings, as Python compares them.
RECURSIVE StrLess(_, _)
StrLess(a, b) ==
  IF b = <<>> THEN FALSE
  ELSE IF a = <<>> THEN TRUE
  ELSE IF a[1] # b[1] THEN Ord(a[1]) < Ord(b[1])
  ELSE StrLess(Tail(a), Tail(b))

\* sorted(list(terms)) for a set of strings.
RECURSIVE SortedTerms(_)
SortedTerms(terms) ==
  IF terms = {} THEN <<>>
  ELSE LET least == CHOOSE t \in terms : \A u \in terms \ {t} : StrLess(t, u)
       IN  <<least>> \o SortedTerms(terms \ {least})

\* The snippet window is max_length characters wide.
MaxSnippetLength == 200

\* QueryProcessor._generate_snippet(text, matched_terms); first_pos is the
\* least position str.find gives for a matched term, len(text) if none occurs.
generate_snippet(text, matched_terms) ==
  LET text_lower == SubSeq([i \in 1..Len(text) |-> Lower(text[i])], 1, Len(text))
      Occurs(term, pos) ==
        /\ pos + Len(term) <= Len(text)
        /\ \A k \in 1..Len(term) : text_lower[pos + k] = Lower(term[k])
      found == {pos \in 0..Len(text) :
                  \E t \in 1..Len(matched_terms) : Occurs(matched_terms[t], pos)}
      first_pos == IF found = {} THEN Len(text)
                   ELSE CHOOSE pos \in found : \A q \in found : pos <= q
      start == IF first_pos - MaxSnippetLength \div 2 >= 0
                 THEN first_pos - MaxSnippetLength \div 2 ELSE 0
      end == Min(Len(text), first_pos + MaxSnippetLength \div 2)
  IN  IF matched_terms = <<>> \/ text = <<>> THEN Slice(text, 0, MaxSnippetLength)
      ELSE IF first_pos = Len(text) THEN Slice(text, 0, MaxSnippetLength)
      ELSE (IF start > 0 THEN <<".", ".", ".">> ELSE <<>>)
           \o Slice(text, start, end)
           \o (IF end < Len(text) THEN <<".", ".", ".">> ELSE <<>>)

\* A RetrievalResult whose matched_terms are the query's tokens found in the
\* chunk, in query order.
RetrievalResultInQueryOrder(index, hit, query_tokens, read) ==
  LET chunk == read.value[1]
      chunk_tokens == tokenize(index.use_stopwords, chunk.text)
      InChunk(t) == \E i \in 1..Len(chunk_tokens) : chunk_tokens[i] = t
      matched_terms == SelectSeq(query_tokens, InChunk)
  IN  IF read.kind = "chunk"
        THEN [chunk_id |-> hit.chunk_id, score |-> hit.score,
              matched_terms |-> matched_terms,
              snippet |-> generate_snippet(chunk.text, matched_terms),
              source_ref |-> chunk.source_ref]
        ELSE [chunk_id |-> hit.chunk_id, score |-> hit.score,
              matched_terms |-> <<>>, snippet |-> <<>>,
              source_ref |-> SourceRef(<<>>, 0, 0, None, None)]

\* The RetrievalResult process_query builds for one hit, given what
\* read_chunk returned for it.
RetrievalResult(index, hit, query_tokens, read) ==
  LET chunk == read.value[1]
      chunk_tokens == tokenize(index.use_stopwords, chunk.text)
      matched_terms ==
        SortedTerms({query_tokens[i] : i \in 1..Len(query_tokens)}
                    \cap {chunk_tokens[i] : i \in 1..Len(chunk_tokens)})
  IN  IF read.kind = "chunk"
        THEN [chunk_id |-> hit.chunk_id, score |-> hit.score,
              matched_terms |-> matched_terms,
              snippet |-> generate_snippet(chunk.text, matched_terms),
              source_ref |-> chunk.source_ref]
        ELSE [chunk_id |-> hit.chunk_id, score |-> hit.score,
              matched_terms |-> <<>>, snippet |-> <<>>,
              source_ref |-> SourceRef(<<>>, 0, 0, None, None)]

\* A loop that leaves out the hits read_chunk has no chunk for.
RECURSIVE ProcessHitsReadableOnly(_, _, _, _, _, _, _)
ProcessHitsReadableOnly(index, store, dir, results, query_tokens, i, retrieval_results) ==
  IF i > Len(results) THEN Result("ok", retrieval_results)
  ELSE LET read == read_chunk(store, dir, results[i].chunk_id)
       IN  IF read.kind = "error" THEN read
           ELSE ProcessHitsReadableOnly(index, store, dir, results,
                  query_tokens, i + 1,
                  IF read.kind # "chunk" THEN retrieval_results
                  ELSE Append(retrieval_results,
                              RetrievalResult(index, results[i], query_tokens,
                                              read)))

\* The loop of process_query over results[i..]: the first exception a read
\* raises ends it.
RECURSIVE ProcessHits(_, _, _, _, _, _, _)
ProcessHits(index, store, dir, results, query_tokens, i, retrieval_results) ==
  IF i > Len(results) THEN Result("ok", retrieval_results)
  ELSE LET read == read_chunk(store, dir, results[i].chunk_id)
       IN  IF read.kind = "error" THEN read
           ELSE ProcessHits(index, store, dir, results, query_tokens, i + 1,
                  Append(retrieval_results,
                         RetrievalResult(index, results[i], query_tokens, read)))

\* QueryProcessor.process_query(query, top_k)
process_query(index, store, dir, query, top_k) ==
  LET results == search(index, query, top_k)
  IN  IF results.kind = "error" THEN results
      ELSE ProcessHits(index, store, dir, results.value,
                       tokenize_query(index.use_stopwords, query), 1, <<>>)

\* RetrievalPipeline.retrieve_ids(query, top_k)
retrieve_ids(index, query, top_k) == search(index, query, top_k)

\* RetrievalPipeline.retrieve(query, top_k)
retrieve(index, store, dir, query, top_k) ==
  process_query(index, store, dir, query, top_k)

\* A fetch that gives up at the first id read_chunk has no chunk for.
fetch_chunks_until_missing(store, dir, chunk_ids) ==
  LET n == Len(chunk_ids)
      reads == SubSeq([i \in 1..n |-> read_chunk(store, dir, chunk_ids[i])], 1, n)
      stops == {i \in 1..n : reads[i].kind # "chunk"}
      last == IF stops = {} THEN n
              ELSE (CHOOSE i \in stops : \A j \in stops : i <= j) - 1
  IN  Result("chunks",
             SubSeq([i \in 1..last |-> reads[i].value[1]], 1, last))

\* RetrievalPipeline.fetch_chunks(chunk_ids): the chunks read_chunk returns
\* for the ids, in order, without the ids it returns None for; an exception
\* of read_chunk ends the call.
fetch_chunks(store, dir, chunk_ids) ==
  LET n == Len(chunk_ids)
      reads == SubSeq([i \in 1..n |-> read_chunk(store, dir, chunk_ids[i])], 1, n)
      raised == {i \in 1..n : reads[i].kind = "error"}
      IsChunk(read) == read.kind = "chunk"
      found == SelectSeq(reads, IsChunk)
  IN  IF raised # {}
        THEN reads[CHOOSE i \in raised : \A j \in raised : i <= j]
        ELSE Result("chunks",
                    SubSeq([i \in 1..Len(found) |-> found[i].value[1]],
                           1, Len(found)))

\* ------------------------------------------------------------------------
\* Manifest (storage/manifest.py)
\* ------------------------------------------------------------------------
Bm25File == "bm25_index.pkl"

ManifestFile == "manifest.json"

\* files_to_check / required_files, in the order the code walks them.
RequiredFiles == <<BinFile, IdxFile, Bm25File, MetaFile>>

\* The bytes of lists[i..]: each string closed by a separator byte, each
\* list of strings closed by a line feed.
RECURSIVE ListsBytes(_, _)
ListsBytes(lists, i) ==
  LET RECURSIVE StringsBytes(_, _)
      StringsBytes(strings, k) ==
        IF k > Len(strings) THEN <<>>
        ELSE Utf8Encode(strings[k]) \o <<0>> \o StringsBytes(strings, k + 1)
  IN  IF i > Len(lists) THEN <<>>
      ELSE StringsBytes(lists[i], 1) \o <<10>> \o ListsBytes(lists, i + 1)

\* The bytes of a file of the directory: what json.dump wrote for docs.meta
\* (the entries in order), what pickle.dump wrote for the index (its
\* configuration, chunk_ids and tokenised corpus), else the bytes themselves.
FileBytes(dir, name) ==
  CASE name = MetaFile ->
         ListsBytes(SubSeq([i \in 1..Len(dir[name]) |->
                              <<dir[name][i].doc_uid, dir[name][i].doc_id,
                                dir[name][i].source_path>>],
                           1, Len(dir[name])), 1)
    [] name = Bm25File ->
         <<IF dir[name].use_stopwords THEN 1 ELSE 0>>
         \o ListsBytes(<<dir[name].chunk_ids>> \o dir[name].corpus, 1)
    [] OTHER -> dir[name]

\* compute_file_checksum(file_path)
compute_file_checksum(dir, name) == Sha256HexOfBytes(FileBytes(dir, name))

\* The loop of create_manifest over files_to_check[i..]: a file that does not
\* exist gets no entry.
RECURSIVE ComputeChecksums(_, _, _)
ComputeChecksums(dir, i, checksums) ==
  IF i > Len(RequiredFiles) THEN checksums
  ELSE ComputeChecksums(dir, i + 1,
         IF Exists(dir, RequiredFiles[i])
           THEN Append(checksums,
                       [filename |-> RequiredFiles[i],
                        checksum |-> compute_file_checksum(dir, RequiredFiles[i])])
           ELSE checksums)

\* create_manifest(artifact_dir, total_docs, total_chunks, index_type,
\* compression); checksums is the dict as a list of items in insertion order.
create_manifest(dir, total_docs, total_chunks, index_type, compression) ==
  [schema_version |-> <<"1", ".", "0">>, artifact_version |-> <<"1", ".", "0">>,
   total_docs |-> total_docs, total_chunks |-> total_chunks,
   index_type |-> index_type, compression |-> compression,
   checksums |-> ComputeChecksums(dir, 1, <<>>)]

\* save_manifest(manifest, file_path)
save_manifest(dir, manifest) == OverwriteFile(dir, ManifestFile, manifest)

\* load_manifest(file_path)
load_manifest(dir) == dir[ManifestFile]

\* The first loop of validate_manifest, from required_files[i] on.
RECURSIVE RequiredFilesExist(_, _)
RequiredFilesExist(dir, i) ==
  IF i > Len(RequiredFiles) THEN TRUE
  ELSE IF ~Exists(dir, RequiredFiles[i]) THEN FALSE
  ELSE RequiredFilesExist(dir, i + 1)

\* The second loop of validate_manifest, from item i of checksums on.
RECURSIVE ChecksumsMatch(_, _, _)
ChecksumsMatch(dir, checksums, i) ==
  IF i > Len(checksums) THEN TRUE
  ELSE IF ~Exists(dir, checksums[i].filename) THEN FALSE
  ELSE IF compute_file_checksum(dir, checksums[i].filename) # checksums[i].checksum
    THEN FALSE
  ELSE ChecksumsMatch(dir, checksums, i + 1)

\* A validation that trusts the manifest's own list of files.
validate_manifest_listed_only(manifest, dir) ==
  ChecksumsMatch(dir, manifest.checksums, 1)

\* validate_manifest(manifest, artifact_dir)
validate_manifest(manifest, dir) ==
  IF ~RequiredFilesExist(dir, 1) THEN FALSE
  ELSE ChecksumsMatch(dir, manifest.checksums, 1)

\* ------------------------------------------------------------------------
\* Index persistence (search/bm25_index.py) and the artifact facade
\* ------------------------------------------------------------------------
\* BM25Index.save(file_path): the pickled dict, or the exception raised.
save(index, dir) ==
  IF ~index.built THEN Result("error", <<"ValueError">>)
  ELSE Result("ok",
         <<OverwriteFile(dir, Bm25File,
                         [use_stopwords |-> index.use_stopwords,
                          chunk_ids |-> index.chunk_ids,
                          corpus |-> index.corpus])>>)

\* BM25Index.load(file_path): the index the pickle holds, or the exception.
load(dir) ==
  IF ~Exists(dir, Bm25File) THEN Result("error", <<"FileNotFoundError">>)
  ELSE Result("ok",
         <<[built |-> TRUE, use_stopwords |-> dir[Bm25File].use_stopwords,
            chunk_ids |-> dir[Bm25File].chunk_ids,
            corpus |-> dir[Bm25File].corpus]>>)

\* Build step 2: the chunks of documents[i..], in corpus order, for a
\* configuration of chunk_size = 1 and chunk_overlap = 0.
RECURSIVE ChunkAll(_, _)
ChunkAll(documents, i) ==
  IF i > Len(documents) THEN <<>>
  ELSE chunk_document(documents[i], 1, 0) \o ChunkAll(documents, i + 1)

\* Build step 3: chunks[i..] appended to the store, each compressed and
\* checksummed.
RECURSIVE WriteAll(_, _, _, _)
WriteAll(store_, dir, chunks, i) ==
  IF i > Len(chunks) THEN Effect(store_, dir)
  ELSE LET data == Utf8Encode(chunks[i].text)
           after == write_chunk(store_, dir, chunks[i], compress_data(data),
                                xxh32(data))
       IN  WriteAll(after.store, after.dir, chunks, i + 1)

\* build_artifact over a non-empty corpus: chunk, store, index, persist the
\* index, rewrite docs.meta, compute and write the manifest.
build_artifact(dir, documents) ==
  LET chunks == ChunkAll(documents, 1)
      stored == WriteAll(EmptyStore, dir, chunks, 1)
      index == build(NewBm25Index(FALSE), chunks).value[1]
      with_index == save(index, stored.dir).value[1]
      with_meta ==
        save_docs_meta(with_index,
                       SubSeq([i \in 1..Len(documents) |-> DocInfo(documents[i])],
                              1, Len(documents)))
      created == create_manifest(with_meta, Len(documents), Len(chunks),
                                 "bm25", "zstd")
  IN  [store |-> stored.store, bm25 |-> index, manifest |-> created,
       sealed |-> with_meta, dir |-> save_manifest(with_meta, created)]

\* load_artifact(dir, strict): the store and the index of the loaded
\* artifact, or the error that aborts the load.
load_artifact(dir, strict) ==
  LET opened == load_index(EmptyStore, dir)
      index == load(dir)
  IN  IF index.kind = "error" THEN index
      ELSE IF \E i \in 1..Len(index.value[1].chunk_ids) :
                index.value[1].chunk_ids[i] \notin DOMAIN opened.index
        THEN Result("error", <<"IndexInconsistency">>)
      ELSE IF strict /\ ~Exists(dir, ManifestFile)
        THEN Result("error", <<"FileNotFoundError">>)
      ELSE IF strict /\ ~validate_manifest(load_manifest(dir), dir)
        THEN Result("error", <<"ManifestMismatch">>)
      ELSE Result("ok", <<[store |-> opened, bm25 |-> index.value[1]]>>)

\* ------------------------------------------------------------------------
\* State
\* ------------------------------------------------------------------------
VARIABLES
  ch_pc,        \* chunk_document: "idle", "start", "loop" or "done"
  ch_doc,       \* its document
  ch_size,      \* config.chunk_size
  ch_overlap,   \* config.chunk_overlap
  ch_pos,       \* current_pos
  ch_index,     \* chunk_index
  ch_chunks,    \* chunks
  store,        \* the open ChunkStore: index, doc_uid_to_chunks,
                \* doc_id_to_source_path
  disk,         \* the artifact directory: file name -> content
  ret,          \* the last call: its name, its argument and what it returned
  written,      \* history: chunk_id -> the chunks written under it since the
                \* id was last tombstoned, oldest first
  tombstoned,   \* history: the ids tombstoned and not written since
  session,      \* history of the open instance: the ids it wrote, the ids it
                \* tombstoned, and whether it ran load_index over an index file
  bm25,         \* the BM25Index of the open pipeline
  manifest,     \* the ArtifactManifest last returned by create_manifest, if any
  sealed,       \* history: the directory as that create_manifest call saw it
  damaged,      \* whether the environment has removed or damaged a file
  readers       \* the concurrent readers of the open pipeline: for each, its
                \* call, the hits or ids it has yet to read, and its output

chunker_vars == <<ch_pc, ch_doc, ch_size, ch_overlap, ch_pos, ch_index, ch_chunks>>

store_vars == <<store, disk, ret, written, tombstoned, session>>

vars == <<ch_pc, ch_doc, ch_size, ch_overlap, ch_pos, ch_index, ch_chunks,
          store, disk, ret, written, tombstoned, session,
          bm25, manifest, sealed, damaged, readers>>

\* ------------------------------------------------------------------------
\* The corpus the store is exercised with
\* ------------------------------------------------------------------------
\* a.txt as first ingested.
DocA1 == MakeDocument(<<"a">>, <<"a", " ", "b">>, <<>>)

\* a.txt after an edit that keeps its first chunk.
DocA2 == MakeDocument(<<"a">>, <<"a">>, <<>>)

\* A one-page PDF.
DocB == MakeDocument(<<"b">>, <<"b">>, <<Page(1, 0, 1)>>)

Corpus == {DocA1, DocA2, DocB}

\* The first chunk of every document, chunked one word at a time.
StoreChunks == {chunk_document(d, 1, 0)[1] : d \in Corpus}

ChunkIds == {c.chunk_id : c \in StoreChunks}

DocUids == {d.doc_uid : d \in Corpus}

\* A call and its outcome, as kept in ret.
Call(op, arg, val) == [op |-> op, arg |-> arg, val |-> val]

\* A reader of the pipeline that is in no call.
IdleReader ==
  [pc |-> "idle", op |-> "none", arg |-> <<>>, todo |-> <<>>, kind |-> "none",
   out |-> <<>>, bin_reads |-> 0]

NewSession == [wrote |-> {}, tombstoned |-> {}, loaded |-> FALSE]

StoreIdle ==
  /\ store = EmptyStore
  /\ disk = <<>>
  /\ ret = Call("__init__", <<>>, Result("none", <<>>))
  /\ written = [id \in ChunkIds |-> <<>>]
  /\ tombstoned = {}
  /\ session = NewSession
  /\ bm25 = NewBm25Index(FALSE)
  /\ manifest = None
  /\ sealed = <<>>
  /\ damaged = FALSE
  /\ readers = [r \in {1, 2} |-> IdleReader]

\* ------------------------------------------------------------------------
\* chunk_document as a state machine
\* ------------------------------------------------------------------------
\* The normalized texts chunked: spaces and letters.
Texts == UNION {[1..n -> {" ", "a"}] : n \in 0..MaxTextLen}

\* No pages (plain text), or pages separated by one character as parse_pdf
\* lays them out: two pages [0, k) and [k + 1, len), or three pages of which
\* the second has no text, [0, k), [k + 1, k + 1) and [k + 2, len).
PageLayouts(text) ==
  {<<>>}
    \cup {<<Page(1, 0, k), Page(2, Min(k + 1, Len(text)), Len(text))>> :
            k \in 0..Len(text)}
    \cup {<<Page(1, 0, k), Page(2, k + 1, k + 1), Page(3, k + 2, Len(text))>> :
            k \in 0..(Len(text) - 2)}

\* chunk_document is called with any document and any configuration.
InitChunker ==
  /\ ch_pc = "start"
  /\ \E text \in Texts : \E pages \in PageLayouts(text) :
       ch_doc = MakeDocument(<<"a">>, text, pages)
  /\ ch_size \in 0..MaxChunkSize
  /\ ch_overlap \in 0..MaxOverlap
  /\ ch_pos = 0
  /\ ch_index = 0
  /\ ch_chunks = <<>>
  /\ StoreIdle

\* Lines 43-54: split into words, return no chunks for a text without words.
ChunkBegin ==
  /\ ch_pc = "start"
  /\ ch_pc' = IF CountWords(ch_doc.normalized_text) = 0 THEN "done" ELSE "loop"
  /\ ch_pos' = 0
  /\ ch_index' = 0
  /\ ch_chunks' = <<>>
  /\ UNCHANGED <<ch_doc, ch_size, ch_overlap>>
  /\ UNCHANGED <<store_vars, readers>>
  /\ UNCHANGED <<bm25, manifest, sealed, damaged>>

\* Lines 56-121: one iteration of the while loop.
ChunkIterate ==
  /\ ch_pc = "loop"
  /\ Len(ch_chunks) < MaxChunks
  /\ LET text == ch_doc.normalized_text
         end_pos == FindChunkEnd(text, ch_pos, ch_size)
     IN  IF ~(ch_pos < Len(text)) \/ end_pos <= ch_pos
              \/ Slice(text, ch_pos, end_pos) = <<>>
           THEN /\ ch_pc' = "done"
                /\ UNCHANGED <<ch_pos, ch_index, ch_chunks>>
           ELSE /\ ch_chunks' = Append(ch_chunks,
                                       NewChunk(ch_doc, ch_pos, end_pos, ch_index))
                /\ ch_index' = ch_index + 1
                /\ IF end_pos >= Len(text)
                     THEN /\ ch_pc' = "done"
                          /\ ch_pos' = ch_pos
                     ELSE /\ ch_pc' = "loop"
                          /\ ch_pos' = FindChunkStart(text, end_pos, ch_overlap)
  /\ UNCHANGED <<ch_doc, ch_size, ch_overlap>>
  /\ UNCHANGED <<store_vars, readers>>
  /\ UNCHANGED <<bm25, manifest, sealed, damaged>>

SpecChunker ==
  InitChunker /\ [][\/ ChunkBegin
                    \/ ChunkIterate]_vars

\* ------------------------------------------------------------------------
\* The chunk store as a state machine
\* ------------------------------------------------------------------------
\* The number of index records chunks.idx may grow to.
MaxIdxRecords == 3

\* The complete records chunks.idx holds.
RecordCount(dir) == Len(DictGet(dir, IdxFile, <<>>)) \div INDEX_RECORD_SIZE

Init ==
  /\ ch_pc = "idle"
  /\ ch_doc = MakeDocument(<<"a">>, <<>>, <<>>)
  /\ ch_size = 0
  /\ ch_overlap = 0
  /\ ch_pos = 0
  /\ ch_index = 0
  /\ ch_chunks = <<>>
  /\ StoreIdle

\* ChunkStore(store_dir): a new instance over the directory as it is.
NewStore ==
  /\ store' = EmptyStore
  /\ ret' = Call("__init__", <<>>, Result("none", <<>>))
  /\ session' = NewSession
  /\ UNCHANGED <<disk, written, tombstoned>>
  /\ UNCHANGED <<chunker_vars, readers>>
  /\ UNCHANGED <<bm25, manifest, sealed, damaged>>

LoadIndex ==
  /\ store' = load_index(store, disk)
  /\ ret' = Call("load_index", <<>>, Result("none", <<>>))
  /\ session' = IF Exists(disk, IdxFile)
                  THEN [wrote |-> {}, tombstoned |-> {}, loaded |-> TRUE]
                  ELSE session
  /\ UNCHANGED <<disk, written, tombstoned>>
  /\ UNCHANGED <<chunker_vars, readers>>
  /\ UNCHANGED <<bm25, manifest, sealed, damaged>>

\* write_chunk as the builder calls it: the payload is the compressed UTF-8
\* text and the checksum is the xxhash32 of the UTF-8 text.
WriteChunk ==
  /\ RecordCount(disk) < MaxIdxRecords
  /\ \E chunk \in StoreChunks :
       LET data == Utf8Encode(chunk.text)
           after == write_chunk(store, disk, chunk, compress_data(data),
                                xxh32(data))
       IN  /\ store' = after.store
           /\ disk' = after.dir
           /\ ret' = Call("write_chunk", chunk.chunk_id, Result("none", <<>>))
           /\ written' = [written EXCEPT
                            ![chunk.chunk_id] = Append(@, chunk)]
           /\ tombstoned' = tombstoned \ {chunk.chunk_id}
           /\ session' = [session EXCEPT !.wrote = @ \cup {chunk.chunk_id}]
  /\ UNCHANGED <<chunker_vars, readers>>
  /\ UNCHANGED <<bm25, manifest, sealed, damaged>>

TombstoneChunk ==
  /\ RecordCount(disk) < MaxIdxRecords
  /\ \E chunk_id \in ChunkIds :
       LET after == tombstone_chunk(store, disk, chunk_id)
           known == chunk_id \in DOMAIN store.index
       IN  /\ store' = after.store
           /\ disk' = after.dir
           /\ ret' = Call("tombstone_chunk", chunk_id, Result("none", <<>>))
           /\ written' = IF known THEN [written EXCEPT ![chunk_id] = <<>>]
                         ELSE written
           /\ tombstoned' = IF known THEN tombstoned \cup {chunk_id}
                            ELSE tombstoned
           /\ session' = IF known
                           THEN [session EXCEPT !.tombstoned = @ \cup {chunk_id}]
                           ELSE session
  /\ UNCHANGED <<chunker_vars, readers>>
  /\ UNCHANGED <<bm25, manifest, sealed, damaged>>

TombstoneDocument ==
  /\ \E doc_uid \in DocUids :
       LET after == tombstone_document(store, disk, doc_uid)
           ids == {store.doc_uid_to_chunks[doc_uid][i] :
                     i \in 1..Len(DictGet(store.doc_uid_to_chunks, doc_uid, <<>>))}
       IN  /\ RecordCount(after.dir) <= MaxIdxRecords
           /\ store' = after.store
           /\ disk' = after.dir
           /\ ret' = Call("tombstone_document", doc_uid, Result("none", <<>>))
           /\ written' = [id \in ChunkIds |->
                            IF id \in ids THEN <<>> ELSE written[id]]
           /\ tombstoned' = tombstoned \cup ids
           /\ session' = [session EXCEPT !.tombstoned = @ \cup ids]
  /\ UNCHANGED <<chunker_vars, readers>>
  /\ UNCHANGED <<bm25, manifest, sealed, damaged>>

ReadChunk ==
  /\ \E chunk_id \in ChunkIds :
       ret' = Call("read_chunk", chunk_id, read_chunk(store, disk, chunk_id))
  /\ UNCHANGED <<store, disk, written, tombstoned, session>>
  /\ UNCHANGED <<chunker_vars, readers>>
  /\ UNCHANGED <<bm25, manifest, sealed, damaged>>

ValidateInvariants ==
  /\ ret' = Call("validate_invariants", <<>>,
                 Result("errors", validate_invariants(store, disk)))
  /\ UNCHANGED <<store, disk, written, tombstoned, session>>
  /\ UNCHANGED <<chunker_vars, readers>>
  /\ UNCHANGED <<bm25, manifest, sealed, damaged>>

SaveDocsMeta ==
  /\ \E docs_meta \in {<<DocInfo(DocA2), DocInfo(DocB)>>} :
       disk' = save_docs_meta(disk, docs_meta)
  /\ ret' = Call("save_docs_meta", <<>>, Result("none", <<>>))
  /\ UNCHANGED <<store, written, tombstoned, session>>
  /\ UNCHANGED <<chunker_vars, readers>>
  /\ UNCHANGED <<bm25, manifest, sealed, damaged>>

Spec ==
  Init /\ [][\/ NewStore
             \/ LoadIndex
             \/ WriteChunk
             \/ TombstoneChunk
             \/ TombstoneDocument
             \/ ReadChunk
             \/ ValidateInvariants
             \/ SaveDocsMeta]_vars

\* ------------------------------------------------------------------------
\* The artifact as a state machine
\* ------------------------------------------------------------------------
Queries == {<<"a">>, <<"b">>, <<"A", ".", "b">>, <<".">>}

\* The largest top_k asked for.
MaxTopK == 2

\* build_artifact(corpus, dir, config) into a new directory.
BuildArtifact ==
  /\ disk = <<>>
  /\ \E documents \in {<<DocA2>>, <<DocB>>, <<DocA2, DocB>>, <<DocB, DocA2>>} :
       LET built == build_artifact(disk, documents)
           chunks == ChunkAll(documents, 1)
       IN  /\ RecordCount(built.dir) <= MaxIdxRecords
           /\ store' = built.store
           /\ disk' = built.dir
           /\ bm25' = built.bm25
           /\ manifest' = Some(built.manifest)
           /\ sealed' = built.sealed
           /\ ret' = Call("build_artifact", <<Len(documents)>>,
                          Result("none", <<>>))
           /\ written' = [id \in ChunkIds |->
                            LET HasId(c) == c.chunk_id = id
                            IN  SelectSeq(chunks, HasId)]
           /\ tombstoned' = {}
           /\ session' = [wrote |-> {chunks[i].chunk_id : i \in 1..Len(chunks)},
                          tombstoned |-> {}, loaded |-> FALSE]
  /\ UNCHANGED damaged
  /\ UNCHANGED <<chunker_vars, readers>>

\* load_artifact(dir, strict): a new store and a new index replace the open
\* ones; an aborted load leaves none.
LoadArtifact ==
  /\ \E strict \in BOOLEAN :
       LET loaded == load_artifact(disk, strict)
           ok == loaded.kind = "ok"
       IN  /\ store' = IF ok THEN loaded.value[1].store ELSE EmptyStore
           /\ bm25' = IF ok THEN loaded.value[1].bm25 ELSE NewBm25Index(FALSE)
           /\ ret' = Call("load_artifact", <<strict>>,
                          IF ok THEN Result("none", <<>>) ELSE loaded)
           /\ session' = IF ok /\ Exists(disk, IdxFile)
                           THEN [wrote |-> {}, tombstoned |-> {}, loaded |-> TRUE]
                           ELSE NewSession
  /\ UNCHANGED <<disk, written, tombstoned, manifest, sealed, damaged>>
  /\ UNCHANGED <<chunker_vars, readers>>

Retrieve ==
  /\ \E query \in Queries : \E top_k \in 0..MaxTopK :
       ret' = Call("retrieve", [query |-> query, top_k |-> top_k],
                   retrieve(bm25, store, disk, query, top_k))
  /\ UNCHANGED <<store, disk, written, tombstoned, session>>
  /\ UNCHANGED <<bm25, manifest, sealed, damaged>>
  /\ UNCHANGED <<chunker_vars, readers>>

RetrieveIds ==
  /\ \E query \in Queries : \E top_k \in 0..MaxTopK :
       ret' = Call("retrieve_ids", [query |-> query, top_k |-> top_k],
                   retrieve_ids(bm25, query, top_k))
  /\ UNCHANGED <<store, disk, written, tombstoned, session>>
  /\ UNCHANGED <<bm25, manifest, sealed, damaged>>
  /\ UNCHANGED <<chunker_vars, readers>>

\* The longest list of ids asked for.
MaxFetchIds == 2

\* fetch_chunks with ids of the corpus and an id no chunk has, repeats
\* included.
FetchChunks ==
  /\ \E n \in 0..MaxFetchIds :
       \E chunk_ids \in [1..n -> ChunkIds \cup {generate_doc_uid(<<"x">>)}] :
         ret' = Call("fetch_chunks", chunk_ids,
                     fetch_chunks(store, disk, chunk_ids))
  /\ UNCHANGED <<store, disk, written, tombstoned, session>>
  /\ UNCHANGED <<bm25, manifest, sealed, damaged>>
  /\ UNCHANGED <<chunker_vars, readers>>

SpecArtifact ==
  Init /\ [][\/ BuildArtifact
             \/ LoadArtifact
             \/ TombstoneChunk
             \/ Retrieve
             \/ RetrieveIds
             \/ FetchChunks]_vars

\* ------------------------------------------------------------------------
\* Whole documents in the store
\* ------------------------------------------------------------------------
\* write_chunk for every chunk of a document the directory has no record of:
\* a.txt in two chunks, or the one-page PDF in one.
WriteDocument ==
  /\ \E document \in {DocA1, DocB} :
       LET chunks == chunk_document(document, 1, 0)
           after == WriteAll(store, disk, chunks, 1)
           ids == {chunks[i].chunk_id : i \in 1..Len(chunks)}
       IN  /\ \A i \in 1..RecordCount(disk) :
                UnpackRecord(RecordAt(disk[IdxFile], i)).doc_uid
                  # document.doc_uid
           /\ store' = after.store
           /\ disk' = after.dir
           /\ ret' = Call("write_chunk", chunks[Len(chunks)].chunk_id,
                          Result("none", <<>>))
           /\ written' = [id \in DOMAIN written |->
                            LET HasId(c) == c.chunk_id = id
                            IN  written[id] \o SelectSeq(chunks, HasId)]
           /\ tombstoned' = tombstoned \ ids
           /\ session' = [session EXCEPT !.wrote = @ \cup ids]
  /\ UNCHANGED <<bm25, manifest, sealed, damaged>>
  /\ UNCHANGED <<chunker_vars, readers>>

\* tombstone_document for a doc_uid the open store does not know, or one it
\* holds a live chunk of.
TombstoneLiveDocument ==
  /\ \E doc_uid \in DocUids :
       LET after == tombstone_document(store, disk, doc_uid)
           ids == {store.doc_uid_to_chunks[doc_uid][i] :
                     i \in 1..Len(DictGet(store.doc_uid_to_chunks, doc_uid, <<>>))}
       IN  /\ \/ doc_uid \notin DOMAIN store.doc_uid_to_chunks
              \/ \E id \in ids : store.index[id].is_active
           /\ store' = after.store
           /\ disk' = after.dir
           /\ ret' = Call("tombstone_document", doc_uid, Result("none", <<>>))
           /\ written' = [id \in DOMAIN written |->
                            IF id \in ids THEN <<>> ELSE written[id]]
           /\ tombstoned' = tombstoned \cup ids
           /\ session' = [session EXCEPT !.tombstoned = @ \cup ids]
  /\ UNCHANGED <<bm25, manifest, sealed, damaged>>
  /\ UNCHANGED <<chunker_vars, readers>>

SpecDocuments ==
  Init /\ [][\/ NewStore
             \/ LoadIndex
             \/ WriteDocument
             \/ TombstoneLiveDocument
             \/ ReadChunk]_vars

\* ------------------------------------------------------------------------
\* Retrieval over chunks of several words
\* ------------------------------------------------------------------------
\* Two files of up to two words, each stored and indexed as one chunk, with
\* or without stopword removal.
IndexChunks ==
  /\ disk = <<>>
  /\ \E use_stopwords \in BOOLEAN :
     \E texts \in {<<"b", " ", "a">>, <<"a", " ", "B">>, <<"b", " ", "b">>,
                    <<"a">>}
                   \X {<<"b", " ", "a">>, <<"a", " ", "B">>, <<"c">>} :
       LET chunks == chunk_document(MakeDocument(<<"a">>, texts[1], <<>>), 3, 0)
                     \o chunk_document(MakeDocument(<<"b">>, texts[2], <<>>),
                                       3, 0)
           stored == WriteAll(EmptyStore, disk, chunks, 1)
       IN  /\ store' = stored.store
           /\ disk' = stored.dir
           /\ bm25' = build(NewBm25Index(use_stopwords), chunks).value[1]
           /\ ret' = Call("build", <<use_stopwords>>, Result("none", <<>>))
           /\ written' = [id \in ChunkIds |->
                            LET HasId(c) == c.chunk_id = id
                            IN  SelectSeq(chunks, HasId)]
           /\ tombstoned' = {}
           /\ session' = [wrote |-> {chunks[i].chunk_id : i \in 1..Len(chunks)},
                          tombstoned |-> {}, loaded |-> FALSE]
  /\ UNCHANGED <<manifest, sealed, damaged>>
  /\ UNCHANGED <<chunker_vars, readers>>

\* retrieve with queries of several words, repeated, in either case, or in
\* no chunk.
RetrieveWords ==
  /\ bm25.built
  /\ \E query \in {<<"b", " ", "a", " ", "b">>, <<"A", ".", "b">>, <<"B">>,
                    <<"c", " ", "a">>, <<"d">>} :
     \E top_k \in 1..MaxTopK :
       ret' = Call("retrieve", [query |-> query, top_k |-> top_k],
                   retrieve(bm25, store, disk, query, top_k))
  /\ UNCHANGED <<store, disk, written, tombstoned, session>>
  /\ UNCHANGED <<bm25, manifest, sealed, damaged>>
  /\ UNCHANGED <<chunker_vars, readers>>

SpecExplain ==
  Init /\ [][\/ IndexChunks
             \/ RetrieveWords
             \/ TombstoneChunk]_vars

\* ------------------------------------------------------------------------
\* Ingestion: normalization and identifiers
\* ------------------------------------------------------------------------
\* The longest raw text normalized.
MaxRawLen == 4

\* normalize_text on any raw text of spaces, tabs, no-break spaces, carriage
\* returns, line feeds and letters.  The function reads nothing but its
\* argument, so every call is taken from the initial state.
NormalizeText ==
  /\ ret.op = "__init__"
  /\ \E n \in 0..MaxRawLen :
       \E text \in [1..n -> {" ", "\t", "\\xa0", "\r", "\n", "a"}] :
         ret' = Call("normalize_text", text, normalize_text(text))
  /\ UNCHANGED <<store, disk, written, tombstoned, session>>
  /\ UNCHANGED <<bm25, manifest, sealed, damaged>>
  /\ UNCHANGED <<chunker_vars, readers>>

\* Two files parsed and chunked one word at a time: for each, the path and
\* the raw text it was made from, the Document and its chunks.
IngestPair ==
  /\ ret.op = "__init__"
  /\ \E paths \in {<<"a">>, <<".", "/", "a">>, <<"b">>}
                    \X {<<"a">>, <<".", "/", "a">>, <<"b">>} :
       \E texts \in {<<"a">>, <<"a", " ", "b">>, <<"a", "\t", " ", "b">>,
                      <<"b">>}
                     \X {<<"a">>, <<"a", " ", "b">>, <<"a", "\t", " ", "b">>,
                         <<"b">>} :
         LET Ingested(k) ==
               LET document == MakeDocument(paths[k], normalize_text(texts[k]),
                                            <<>>)
               IN  [rel_path |-> paths[k], raw_text |-> texts[k],
                    document |-> document,
                    chunks |-> chunk_document(document, 1, 0)]
         IN  ret' = Call("ingest", <<>>, <<Ingested(1), Ingested(2)>>)
  /\ UNCHANGED <<store, disk, written, tombstoned, session>>
  /\ UNCHANGED <<bm25, manifest, sealed, damaged>>
  /\ UNCHANGED <<chunker_vars, readers>>

\* The longest relative path normalized.
MaxPathLen == 5

\* normalize_path on any relative path of letters, dots, slashes and
\* backslashes.
NormalizePath ==
  /\ ret.op = "__init__"
  /\ \E n \in 0..MaxPathLen :
       \E rel_path \in [1..n -> {"a", ".", "/", "\\"}] :
         ret' = Call("normalize_path", rel_path, normalize_path(rel_path))
  /\ UNCHANGED <<store, disk, written, tombstoned, session>>
  /\ UNCHANGED <<bm25, manifest, sealed, damaged>>
  /\ UNCHANGED <<chunker_vars, readers>>

SpecIngest ==
  Init /\ [][\/ NormalizeText
             \/ IngestPair
             \/ NormalizePath]_vars

\* ------------------------------------------------------------------------
\* One ChunkStore instance over a directory that starts empty
\* ------------------------------------------------------------------------
SpecOneStore ==
  Init /\ [][\/ WriteChunk
             \/ TombstoneChunk
             \/ TombstoneDocument]_vars

\* ------------------------------------------------------------------------
\* write_chunk one file operation at a time
\* ------------------------------------------------------------------------
\* write_chunk up to the first open: the size of chunks.bin is taken, and
\* the payload and the record that will be appended are what is left to
\* write.  The process may stop for good in any state.
BeginWriteChunk ==
  /\ ret.op # "write_chunk" \/ ret.val.kind # "running"
  /\ RecordCount(disk) < MaxIdxRecords
  /\ \E chunk \in StoreChunks :
       LET data == Utf8Encode(chunk.text)
           compressed_data == compress_data(data)
           store_offset == FileSize(disk, BinFile)
       IN  ret' = Call("write_chunk",
                       [chunk |-> chunk, compressed_data |-> compressed_data,
                        checksum |-> xxh32(data), before |-> disk,
                        bin_todo |-> compressed_data,
                        idx_todo |->
                          PackRecord(chunk.chunk_id, chunk.doc_uid,
                                     chunk.doc_id, store_offset,
                                     Len(compressed_data), xxh32(data), TRUE,
                                     chunk.offset_start, chunk.offset_end,
                                     chunk.chunk_index,
                                     OptToInt(chunk.page_start),
                                     OptToInt(chunk.page_end))],
                       Result("running", <<>>))
  /\ UNCHANGED <<store, disk, written, tombstoned, session>>
  /\ UNCHANGED <<bm25, manifest, sealed, damaged>>
  /\ UNCHANGED <<chunker_vars, readers>>

\* A writer that appends the record before the payload.
AppendByteRecordFirst ==
  /\ ret.op = "write_chunk" /\ ret.val.kind = "running"
  /\ ret.arg.bin_todo # <<>> \/ ret.arg.idx_todo # <<>>
  /\ IF ret.arg.idx_todo # <<>>
       THEN /\ disk' = AppendFile(disk, IdxFile, <<Head(ret.arg.idx_todo)>>)
            /\ ret' = [ret EXCEPT !.arg.idx_todo = Tail(@)]
       ELSE /\ disk' = AppendFile(disk, BinFile, <<Head(ret.arg.bin_todo)>>)
            /\ ret' = [ret EXCEPT !.arg.bin_todo = Tail(@)]
  /\ UNCHANGED <<store, written, tombstoned, session>>
  /\ UNCHANGED <<bm25, manifest, sealed, damaged>>
  /\ UNCHANGED <<chunker_vars, readers>>

\* One more byte of f.write reaches the file: of the payload in chunks.bin
\* first, of the record in chunks.idx once the payload is complete.
AppendByte ==
  /\ ret.op = "write_chunk" /\ ret.val.kind = "running"
  /\ ret.arg.bin_todo # <<>> \/ ret.arg.idx_todo # <<>>
  /\ IF ret.arg.bin_todo # <<>>
       THEN /\ disk' = AppendFile(disk, BinFile, <<Head(ret.arg.bin_todo)>>)
            /\ ret' = [ret EXCEPT !.arg.bin_todo = Tail(@)]
       ELSE /\ disk' = AppendFile(disk, IdxFile, <<Head(ret.arg.idx_todo)>>)
            /\ ret' = [ret EXCEPT !.arg.idx_todo = Tail(@)]
  /\ UNCHANGED <<store, written, tombstoned, session>>
  /\ UNCHANGED <<bm25, manifest, sealed, damaged>>
  /\ UNCHANGED <<chunker_vars, readers>>

\* Both files are written: write_chunk updates the maps in memory and
\* returns.
EndWriteChunk ==
  /\ ret.op = "write_chunk" /\ ret.val.kind = "running"
  /\ ret.arg.bin_todo = <<>> /\ ret.arg.idx_todo = <<>>
  /\ LET chunk == ret.arg.chunk
         after == write_chunk(store, ret.arg.before, chunk,
                              ret.arg.compressed_data, ret.arg.checksum)
     IN  /\ disk = after.dir
         /\ store' = after.store
         /\ ret' = Call("write_chunk", chunk.chunk_id, Result("none", <<>>))
         /\ written' = [written EXCEPT ![chunk.chunk_id] = Append(@, chunk)]
         /\ tombstoned' = tombstoned \ {chunk.chunk_id}
         /\ session' = [session EXCEPT !.wrote = @ \cup {chunk.chunk_id}]
  /\ UNCHANGED disk
  /\ UNCHANGED <<bm25, manifest, sealed, damaged>>
  /\ UNCHANGED <<chunker_vars, readers>>

SpecWriter ==
  Init /\ [][\/ BeginWriteChunk
             \/ AppendByte
             \/ EndWriteChunk]_vars

\* ------------------------------------------------------------------------
\* Score display (cli/main.py)
\* ------------------------------------------------------------------------
\* A display transform that shifts by the minimum whatever its sign.
normalize_scores_always_shifted(results) ==
  LET n == Len(results)
      min_score == CHOOSE s \in {results[i].score : i \in 1..n} :
                     \A i \in 1..n : s <= results[i].score
  IN  IF results = <<>> THEN <<>>
      ELSE SubSeq([i \in 1..n |-> results[i].score - min_score], 1, n)

\* normalize_scores_for_display(results).  Scores are Python floats: here a
\* binary floating-point format of three significant bits whose values are
\* written as integers, and r.score + shift rounds the exact sum to the
\* nearest value of the format, ties to the even significand.
normalize_scores_for_display(results) ==
  LET n == Len(results)
      min_score == CHOOSE s \in {results[i].score : i \in 1..n} :
                     \A i \in 1..n : s <= results[i].score
      shift == IF min_score < 0 THEN 0 - min_score ELSE 0
      Abs(x) == IF x < 0 THEN 0 - x ELSE x
      Quantum(a) == CHOOSE q \in {1, 2, 4, 8, 16, 32, 64, 128} :
                      /\ a < 8 * q
                      /\ q = 1 \/ a >= 4 * q
      RoundToFloat(x) ==
        LET a == Abs(x)
            q == Quantum(a)
            m == a \div q
            twice_rest == 2 * (a - m * q)
            rounded == IF twice_rest > q \/ (twice_rest = q /\ m % 2 = 1)
                         THEN (m + 1) * q ELSE m * q
        IN  IF x < 0 THEN 0 - rounded ELSE rounded
  IN  IF results = <<>> THEN <<>>
      ELSE SubSeq([i \in 1..n |-> RoundToFloat(results[i].score + shift)],
                  1, n)

\* The longest result list displayed.
MaxResults == 3

\* The display scores of any list of results with these raw scores, and the
\* list as it is after the call; the function assigns to no result.
NormalizeScoresForDisplay ==
  /\ ret.op = "__init__"
  /\ \E n \in 0..MaxResults :
       \E scores \in [1..n -> {0 - 32, 0 - 5, 0 - 3, 0 - 1, 0, 1, 2, 5}] :
         LET results == SubSeq([i \in 1..n |-> [score |-> scores[i]]], 1, n)
         IN  ret' = Call("normalize_scores_for_display", results,
                         [display_scores |-> normalize_scores_for_display(results),
                          results |-> results])
  /\ UNCHANGED <<store, disk, written, tombstoned, session>>
  /\ UNCHANGED <<bm25, manifest, sealed, damaged>>
  /\ UNCHANGED <<chunker_vars, readers>>

SpecDisplay ==
  Init /\ [][NormalizeScoresForDisplay]_vars

\* ------------------------------------------------------------------------
\* Concurrent readers of one pipeline
\* ------------------------------------------------------------------------
\* A reader calls retrieve, retrieve_ids, fetch_chunks or read_chunk on the
\* pipeline of a built artifact.
\* index.search runs in the calling step: it is a computation over the index
\* in memory.  retrieve_ids returns what it found; the other calls go on to
\* read one chunk per step.
ReaderCall ==
  \E r \in DOMAIN readers :
    /\ readers[r].pc = "idle"
    /\ bm25.built
    /\ \E call \in
           {[op |-> op, arg |-> [query |-> <<"A", ".", "b">>, top_k |-> MaxTopK]] :
              op \in {"retrieve", "retrieve_ids"}}
           \cup {[op |-> "fetch_chunks", arg |-> ids] : ids \in ChunkIds \X ChunkIds}
           \cup {[op |-> "read_chunk", arg |-> id] : id \in ChunkIds} :
         LET found == IF call.op \in {"retrieve", "retrieve_ids"}
                        THEN search(bm25, call.arg.query, call.arg.top_k)
                        ELSE Result("chunks", IF call.op = "fetch_chunks"
                                                THEN call.arg ELSE <<call.arg>>)
             returns == call.op = "retrieve_ids" \/ found.kind = "error"
         IN  readers' = [readers EXCEPT ![r] =
                           [pc |-> IF returns THEN "done" ELSE "run",
                            op |-> call.op, arg |-> call.arg,
                            todo |-> IF returns THEN <<>> ELSE found.value,
                            kind |-> found.kind,
                            out |-> IF returns THEN found.value ELSE <<>>,
                            bin_reads |-> 0]]
    /\ UNCHANGED <<store, disk, ret, written, tombstoned, session>>
    /\ UNCHANGED <<bm25, manifest, sealed, damaged>>
    /\ UNCHANGED chunker_vars

\* A reader step that also fills a cache inside the store.
ReaderStepFillingCache ==
  \E r \in DOMAIN readers :
    /\ readers[r].pc \in {"run", "done"}
    /\ LET reader == readers[r]
           item == Head(reader.todo)
           chunk_id == IF reader.op = "retrieve" THEN item.chunk_id ELSE item
           read == read_chunk(store, disk, chunk_id)
           opens == /\ chunk_id \in DOMAIN store.index
                    /\ store.index[chunk_id].is_active
       IN  readers' = [readers EXCEPT ![r] =
             IF reader.pc = "done" THEN IdleReader
             ELSE IF reader.todo = <<>> THEN [reader EXCEPT !.pc = "done"]
             ELSE IF read.kind = "error" \/ reader.op = "read_chunk"
               THEN [reader EXCEPT
                       !.pc = "done", !.todo = <<>>,
                       !.kind = read.kind, !.out = read.value,
                       !.bin_reads = IF opens THEN @ + 1 ELSE @]
             ELSE [reader EXCEPT
                     !.todo = Tail(@),
                     !.bin_reads = IF opens THEN @ + 1 ELSE @,
                     !.out =
                        IF reader.op = "retrieve"
                          THEN Append(@, RetrievalResult(bm25, item,
                                           tokenize_query(bm25.use_stopwords,
                                                          reader.arg.query),
                                           read))
                        ELSE IF read.kind = "chunk"
                          THEN Append(@, read.value[1])
                        ELSE @]]
    /\ store' = IF readers[r].pc = "run" /\ readers[r].todo # <<>>
                  THEN [store EXCEPT !.doc_id_to_source_path =
                          DictPut(@, readers[r].op, <<>>)]
                  ELSE store
    /\ UNCHANGED <<disk, ret, written, tombstoned, session>>
    /\ UNCHANGED <<bm25, manifest, sealed, damaged>>
    /\ UNCHANGED chunker_vars

\* One iteration of the loop of process_query (query.py 47-81) or of
\* fetch_chunks (retrieval.py 67-70), or the body of read_chunk: the reader
\* opens chunks.bin on a handle of its own when the id has a live record, and
\* returns when nothing is left to read or the read raised.  A reader that
\* has returned is idle again once its caller has taken the result.
ReaderStep ==
  \E r \in DOMAIN readers :
    /\ readers[r].pc \in {"run", "done"}
    /\ LET reader == readers[r]
           item == Head(reader.todo)
           chunk_id == IF reader.op = "retrieve" THEN item.chunk_id ELSE item
           read == read_chunk(store, disk, chunk_id)
           opens == /\ chunk_id \in DOMAIN store.index
                    /\ store.index[chunk_id].is_active
       IN  readers' = [readers EXCEPT ![r] =
             IF reader.pc = "done" THEN IdleReader
             ELSE IF reader.todo = <<>> THEN [reader EXCEPT !.pc = "done"]
             ELSE IF read.kind = "error" \/ reader.op = "read_chunk"
               THEN [reader EXCEPT
                       !.pc = "done", !.todo = <<>>,
                       !.kind = read.kind, !.out = read.value,
                       !.bin_reads = IF opens THEN @ + 1 ELSE @]
             ELSE [reader EXCEPT
                     !.todo = Tail(@),
                     !.bin_reads = IF opens THEN @ + 1 ELSE @,
                     !.out =
                        IF reader.op = "retrieve"
                          THEN Append(@, RetrievalResult(bm25, item,
                                           tokenize_query(bm25.use_stopwords,
                                                          reader.arg.query),
                                           read))
                        ELSE IF read.kind = "chunk"
                          THEN Append(@, read.value[1])
                        ELSE @]]
    /\ UNCHANGED <<store, disk, ret, written, tombstoned, session>>
    /\ UNCHANGED <<bm25, manifest, sealed, damaged>>
    /\ UNCHANGED chunker_vars

\* Readers over a built artifact; chunks are tombstoned only while no reader
\* is inside a call.
SpecReaders ==
  Init /\ [][\/ BuildArtifact
             \/ ReaderCall
             \/ ReaderStep
             \/ (TombstoneChunk /\ \A r \in DOMAIN readers : readers[r].pc # "run")]_vars

\* ------------------------------------------------------------------------
\* Rewriting docs.meta and manifest.json, one file operation per step
\* ------------------------------------------------------------------------
\* What a JSON file holds between open(path, "w"), which empties it, and the
\* end of json.dump: text that is not a complete document.
IncompleteJson(name) ==
  IF name = MetaFile THEN <<[incomplete |-> TRUE]>> ELSE [incomplete |-> TRUE]

\* save_docs_meta and save_manifest up to their open(path, "w"): the target
\* exists and holds nothing of what it held.  ret keeps the call: the file,
\* the content to write and the content the file had.
OpenJsonForWrite ==
  /\ ret.op # "open"
  /\ \E name \in {MetaFile, ManifestFile} :
       \E data \in
           IF name = MetaFile
             THEN {<<>>, <<DocInfo(DocA2)>>, <<DocInfo(DocB)>>,
                   <<DocInfo(DocA2), DocInfo(DocB)>>}
             ELSE {create_manifest(disk, total_docs, RecordCount(disk),
                                   "bm25", "zstd") :
                     total_docs \in {Len(DictGet(disk, MetaFile, <<>>)),
                                     RecordCount(disk)}} :
         /\ disk' = DictPut(disk, name, IncompleteJson(name))
         /\ ret' = Call("open",
                        [name |-> name, data |-> data,
                         previous |-> IF Exists(disk, name)
                                        THEN Some(disk[name]) ELSE None],
                        Result("none", <<>>))
  /\ UNCHANGED <<store, written, tombstoned, session>>
  /\ UNCHANGED <<bm25, manifest, sealed, damaged>>
  /\ UNCHANGED <<chunker_vars, readers>>

\* json.dump into the open file and the close that ends the call.
DumpJson ==
  /\ ret.op = "open"
  /\ disk' = IF ret.arg.name = MetaFile
               THEN save_docs_meta(disk, ret.arg.data)
               ELSE save_manifest(disk, ret.arg.data)
  /\ ret' = Call(IF ret.arg.name = MetaFile THEN "save_docs_meta"
                 ELSE "save_manifest", <<>>, Result("none", <<>>))
  /\ UNCHANGED <<store, written, tombstoned, session>>
  /\ UNCHANGED <<bm25, manifest, sealed, damaged>>
  /\ UNCHANGED <<chunker_vars, readers>>

\* A build followed by rewrites of the two JSON files; the process may stop
\* for good in any state.
SpecSave ==
  Init /\ [][\/ BuildArtifact
             \/ OpenJsonForWrite
             \/ DumpJson]_vars

\* ------------------------------------------------------------------------
\* The manifest as a state machine
\* ------------------------------------------------------------------------
\* create_manifest(dir, ...) over the directory as it is.
CreateManifest ==
  /\ manifest' = Some(create_manifest(disk, Len(DictGet(disk, MetaFile, <<>>)),
                                      Cardinality(DOMAIN store.index),
                                      "bm25", "zstd"))
  /\ sealed' = disk
  /\ ret' = Call("create_manifest", <<>>, Result("none", <<>>))
  /\ UNCHANGED <<store, disk, written, tombstoned, session, bm25, damaged>>
  /\ UNCHANGED <<chunker_vars, readers>>

\* validate_manifest(manifest, dir) for the manifest held in memory.
ValidateManifest ==
  /\ manifest # None
  /\ ret' = Call("validate_manifest", <<>>,
                 Result("bool", validate_manifest(manifest[1], disk)))
  /\ UNCHANGED <<store, disk, written, tombstoned, session>>
  /\ UNCHANGED <<bm25, manifest, sealed, damaged>>
  /\ UNCHANGED <<chunker_vars, readers>>

\* The environment deletes one of the artifact's files.
RemoveFile ==
  /\ ~damaged
  /\ \E name \in DOMAIN disk \ {ManifestFile} :
       /\ disk' = [n \in DOMAIN disk \ {name} |-> disk[n]]
       /\ ret' = Call("environment", name, Result("none", <<>>))
  /\ damaged' = TRUE
  /\ UNCHANGED <<store, written, tombstoned, session, bm25, manifest, sealed>>
  /\ UNCHANGED <<chunker_vars, readers>>

\* The environment changes one byte of chunks.bin or chunks.idx: any byte of
\* chunks.bin, or the first byte of store_offset, length or checksum of an
\* index record.
CorruptByte ==
  /\ ~damaged
  /\ \E name \in DOMAIN disk \cap {BinFile, IdxFile} :
       \E pos \in IF name = BinFile THEN 1..Len(disk[name])
                  ELSE {INDEX_RECORD_SIZE * r + field :
                          r \in 0..(RecordCount(disk) - 1),
                          field \in {3 * IdFieldBytes + 1, 3 * IdFieldBytes + 9,
                                     3 * IdFieldBytes + 13}} :
         /\ disk' = [disk EXCEPT ![name][pos] = (@ + 1) % 256]
         /\ ret' = Call("environment", name, Result("none", <<>>))
  /\ damaged' = TRUE
  /\ UNCHANGED <<store, written, tombstoned, session, bm25, manifest, sealed>>
  /\ UNCHANGED <<chunker_vars, readers>>

\* The environment cuts the last byte off chunks.bin.
TruncateFile ==
  /\ ~damaged
  /\ Exists(disk, BinFile)
  /\ Len(disk[BinFile]) > 0
  /\ disk' = [disk EXCEPT ![BinFile] = SubSeq(@, 1, Len(@) - 1)]
  /\ ret' = Call("environment", BinFile, Result("none", <<>>))
  /\ damaged' = TRUE
  /\ UNCHANGED <<store, written, tombstoned, session, bm25, manifest, sealed>>
  /\ UNCHANGED <<chunker_vars, readers>>

SpecManifest ==
  Init /\ [][\/ BuildArtifact
             \/ CreateManifest
             \/ ValidateManifest
             \/ TombstoneChunk
             \/ SaveDocsMeta
             \/ RemoveFile
             \/ CorruptByte
             \/ TruncateFile]_vars

\* ------------------------------------------------------------------------
\* Tombstones on a built artifact and its manifest
\* ------------------------------------------------------------------------
SpecSealed ==
  Init /\ [][\/ BuildArtifact
             \/ TombstoneChunk
             \/ TombstoneDocument
             \/ CreateManifest
             \/ ValidateManifest]_vars

\* ------------------------------------------------------------------------
\* The chunk store over files the environment may damage
\* ------------------------------------------------------------------------
SpecEnv ==
  Init /\ [][\/ NewStore
             \/ LoadIndex
             \/ WriteChunk
             \/ ReadChunk
             \/ CorruptByte
             \/ TruncateFile]_vars

\* ------------------------------------------------------------------------
\* validate_invariants over files the environment may damage
\* ------------------------------------------------------------------------
SpecValidate ==
  Init /\ [][\/ LoadIndex
             \/ WriteChunk
             \/ TombstoneChunk
             \/ ValidateInvariants
             \/ RemoveFile
             \/ TruncateFile]_vars

\* ------------------------------------------------------------------------
\* The index record on its own
\* ------------------------------------------------------------------------
\* _write_index_record on a directory without an index file, for arguments
\* that fit the fields of the record: ids of 0, 1, 2, 16 and 32 UTF-8 bytes,
\* numbers at both ends of what the widths hold (up to 2^31 - 1 here), and
\* page numbers with -1 for an absent page.
WriteIndexRecord ==
  /\ ~Exists(disk, IdxFile)
  /\ \E chunk_id \in {<<>>, <<"a">>, <<"a", "\\0">>, generate_doc_uid(<<"a">>),
                       [i \in 1..IdFieldBytes |-> "f"]},
        doc_uid \in {generate_doc_uid(<<"b">>), <<"b", "\\0">>},
        doc_id \in {generate_doc_uid(<<"a">>), [i \in 1..IdFieldBytes |-> "e"]},
        store_offset \in {0, 2147483647}, is_active \in BOOLEAN,
        offset_start \in {0, 258}, offset_end \in {1, 2147483647},
        chunk_index \in {0, 65536}, page_start \in {-1, 1, -2},
        page_end \in {-1, 2147483647} :
       LET record == [chunk_id |-> chunk_id, doc_uid |-> doc_uid,
                      doc_id |-> doc_id, store_offset |-> store_offset,
                      length |-> 257, checksum |-> 65535,
                      is_active |-> is_active, offset_start |-> offset_start,
                      offset_end |-> offset_end, chunk_index |-> chunk_index,
                      page_start |-> page_start, page_end |-> page_end]
       IN  /\ disk' = AppendFile(disk, IdxFile,
                         PackRecord(chunk_id, doc_uid, doc_id, store_offset,
                                    257, 65535, is_active, offset_start,
                                    offset_end, chunk_index, page_start,
                                    page_end))
           /\ ret' = Call("_write_index_record", record, Result("none", <<>>))
  /\ UNCHANGED <<store, written, tombstoned, session>>
  /\ UNCHANGED <<chunker_vars, readers>>
  /\ UNCHANGED <<bm25, manifest, sealed, damaged>>

SpecRecord ==
  Init /\ [][\/ WriteIndexRecord
             \/ LoadIndex]_vars

\* ------------------------------------------------------------------------
\* Claims about the chunker
\* ------------------------------------------------------------------------
\* C2: every emitted chunk's text is exactly the characters of
\* normalized_text at [offset_start, offset_end), nothing trimmed, and
\* 0 <= offset_start < offset_end <= len(normalized_text).
C2_SliceEquality ==
  \A i \in 1..Len(ch_chunks) :
    LET c == ch_chunks[i]
        text == ch_doc.normalized_text
    IN  /\ 0 <= c.offset_start
        /\ c.offset_start < c.offset_end
        /\ c.offset_end <= Len(text)
        /\ Len(c.text) = c.offset_end - c.offset_start
        /\ \A k \in 1..Len(c.text) : c.text[k] = text[c.offset_start + k]

\* A finished run with a later chunk that starts and ends on whitespace the
\* slice must keep.
C2_Witness ==
  /\ ch_pc = "done"
  /\ Len(ch_chunks) >= 2
  /\ ch_chunks[2].offset_start > 0
  /\ IsSpace(ch_chunks[2].text[1])
  /\ IsSpace(ch_chunks[2].text[Len(ch_chunks[2].text)])

\* C10: chunk_document terminates for every document and configuration:
\* whenever the next cursor would not move strictly forward, chunking stops
\* instead of going round the loop again.
C10_CursorMovesForwardOrStops ==
  [][(ch_pc = "loop" /\ ch_pc' = "loop") => ch_pos' > ch_pos]_vars

\* ------------------------------------------------------------------------
\* Claims about the chunk store
\* ------------------------------------------------------------------------
\* The memory of a fresh ChunkStore over the directory after load_index.
Reloaded == load_index(EmptyStore, disk)

\* result is a Chunk with the text, ids, offsets, index and page range of chunk.
ReturnsChunk(result, chunk) ==
  /\ result.kind = "chunk"
  /\ result.value[1].text = chunk.text
  /\ result.value[1].chunk_id = chunk.chunk_id
  /\ result.value[1].doc_uid = chunk.doc_uid
  /\ result.value[1].doc_id = chunk.doc_id
  /\ result.value[1].offset_start = chunk.offset_start
  /\ result.value[1].offset_end = chunk.offset_end
  /\ result.value[1].chunk_index = chunk.chunk_index
  /\ result.value[1].page_start = chunk.page_start
  /\ result.value[1].page_end = chunk.page_end

\* result cites the source_path docs.meta records for the doc_id of chunk.
CitesDocsMeta(result, chunk) ==
  \A i \in 1..Len(load_docs_meta(disk)) :
    load_docs_meta(disk)[i].doc_id = chunk.doc_id
      => result.value[1].source_ref.source_path
           = load_docs_meta(disk)[i].source_path

\* The open instance wrote the id, or loaded the index that holds it.
OpenInstanceKnows(chunk_id) == chunk_id \in session.wrote \/ session.loaded

\* Reading chunk_id gives back chunk, in the open instance if it wrote or
\* loaded the id, and in the fresh instance reloaded from the directory.
RoundTrips(reloaded, chunk_id, chunk) ==
  LET reread == read_chunk(reloaded, disk, chunk_id)
  IN  /\ OpenInstanceKnows(chunk_id)
           => ReturnsChunk(read_chunk(store, disk, chunk_id), chunk)
      /\ ReturnsChunk(reread, chunk)
      /\ CitesDocsMeta(reread, chunk)

\* C1 (as stated): every chunk written with write_chunk and not tombstoned
\* since is read back with the written text, ids, offsets, chunk_index and page
\* range, in the writing instance and in a fresh instance after load_index,
\* where its source_path is the one docs.meta records for its doc_id.
C1_EveryWrittenChunkRoundTrips ==
  LET reloaded == Reloaded
  IN  \A chunk_id \in ChunkIds :
        \A k \in 1..Len(written[chunk_id]) :
          RoundTrips(reloaded, chunk_id, written[chunk_id][k])

\* C1 (amended): the same for the chunk most recently written under the id,
\* with no tombstone and no other write_chunk of that id after it.
C1_LatestWrittenChunkRoundTrips ==
  LET reloaded == Reloaded
  IN  \A chunk_id \in ChunkIds :
        written[chunk_id] # <<>>
          => RoundTrips(reloaded, chunk_id,
                        written[chunk_id][Len(written[chunk_id])])

\* A fresh instance that loaded the index has just read back the paged chunk,
\* whose document docs.meta lists, after another chunk went into the store.
C1_Witness ==
  /\ ret.op = "read_chunk"
  /\ ret.val.kind = "chunk"
  /\ ret.val.value[1].page_start = Some(1)
  /\ ret.val.value[1].source_ref.source_path = <<"b">>
  /\ store.index[ret.arg].store_offset > 0
  /\ session.loaded
  /\ ret.arg \notin session.wrote
  /\ written[ret.arg] # <<>>

\* C3: after tombstone_chunk on a known id, and until a later write_chunk of
\* that id, read_chunk returns None in the same instance and in a fresh
\* instance after load_index.
C3_TombstonedReadsNone ==
  LET reloaded == Reloaded
  IN  \A chunk_id \in tombstoned :
        /\ read_chunk(store, disk, chunk_id).kind = "none"
        /\ read_chunk(reloaded, disk, chunk_id).kind = "none"

\* A reopened store that loaded the index has just been asked for a chunk
\* an earlier instance tombstoned.
C3_Witness ==
  /\ ret.op = "read_chunk"
  /\ ret.arg \in tombstoned
  /\ ret.arg \notin session.tombstoned
  /\ ret.arg \in DOMAIN store.index
  /\ session.loaded
  /\ ret.val.kind = "none"

\* The index positions of the complete records of chunks.idx.
RecordPositions == 1..RecordCount(disk)

\* Record i is the last complete record of its chunk id in chunks.idx.
IsLastRecordOfItsId(i) ==
  \A j \in RecordPositions :
    j > i => SubSeq(RecordAt(disk[IdxFile], j), 1, IdFieldBytes)
               # SubSeq(RecordAt(disk[IdxFile], i), 1, IdFieldBytes)

\* index holds exactly the ids of chunks.idx, each with the fields of the last
\* record of that id.
LastRecordWins(index) ==
  /\ DOMAIN index = {RecordChunkId(RecordAt(disk[IdxFile], i)) :
                       i \in RecordPositions}
  /\ \A i \in RecordPositions :
       IsLastRecordOfItsId(i)
         => index[RecordChunkId(RecordAt(disk[IdxFile], i))]
              = UnpackRecord(RecordAt(disk[IdxFile], i))

\* C5: load_index leaves, for every chunk id of chunks.idx, the record that
\* comes last in the file for that id, is_active included.
C5_LastRecordWins ==
  Exists(disk, IdxFile)
    => /\ \A index \in {Reloaded.index} : LastRecordWins(index)
       /\ ret.op = "load_index" => LastRecordWins(store.index)

\* load_index has just run over a file that holds a live record, then a
\* tombstone, then a live record again for one id, and the id is live.
C5_Witness ==
  /\ ret.op = "load_index"
  /\ RecordCount(disk) = 3
  /\ RecordAt(disk[IdxFile], 1)[113] = 1
  /\ RecordAt(disk[IdxFile], 2)[113] = 0
  /\ RecordAt(disk[IdxFile], 3)[113] = 1
  /\ RecordChunkId(RecordAt(disk[IdxFile], 1))
       = RecordChunkId(RecordAt(disk[IdxFile], 3))
  /\ RecordChunkId(RecordAt(disk[IdxFile], 1))
       = RecordChunkId(RecordAt(disk[IdxFile], 2))
  /\ store.index[RecordChunkId(RecordAt(disk[IdxFile], 1))].is_active
  /\ store.index[RecordChunkId(RecordAt(disk[IdxFile], 1))].doc_id
       # UnpackRecord(RecordAt(disk[IdxFile], 1)).doc_id

\* The bytes of a file, none if it does not exist.
Bytes(dir, name) == DictGet(dir, name, <<>>)

\* old is a prefix of new.
IsPrefix(old, new) == Len(old) <= Len(new) /\ SubSeq(new, 1, Len(old)) = old

\* The record at position i of new_idx is a tombstone of the record that was
\* last for its id before it: same chunk_id, doc_uid, doc_id, store_offset,
\* length and checksum (bytes 1 to 112), and is_active = 0.
IsTombstoneOfPrevious(new_idx, i) ==
  /\ RecordAt(new_idx, i)[113] = 0
  /\ \E j \in 1..(i - 1) :
       /\ SubSeq(RecordAt(new_idx, j), 1, 112) = SubSeq(RecordAt(new_idx, i), 1, 112)
       /\ \A k \in (j + 1)..(i - 1) :
            SubSeq(RecordAt(new_idx, k), 1, IdFieldBytes)
              # SubSeq(RecordAt(new_idx, i), 1, IdFieldBytes)

\* C6: every step leaves the old chunks.bin and chunks.idx as a prefix of the
\* new ones; tombstone_chunk on a known id appends one record, and every
\* appended record with is_active = 0 repeats the chunk_id, doc_uid, doc_id,
\* store_offset, length and checksum of the id's previous record.
C6_AppendOnly ==
  [][/\ IsPrefix(Bytes(disk, BinFile), Bytes(disk', BinFile))
     /\ IsPrefix(Bytes(disk, IdxFile), Bytes(disk', IdxFile))
     /\ (ret'.op = "tombstone_chunk" /\ ret'.arg \in DOMAIN store.index)
          => /\ RecordCount(disk') = RecordCount(disk) + 1
             /\ RecordChunkId(RecordAt(disk'[IdxFile], RecordCount(disk')))
                  = ret'.arg
             /\ IsTombstoneOfPrevious(disk'[IdxFile], RecordCount(disk'))
             /\ Bytes(disk', BinFile) = Bytes(disk, BinFile)
     /\ \A i \in (RecordCount(disk) + 1)..RecordCount(disk') :
          RecordAt(disk'[IdxFile], i)[113] = 0
            => IsTombstoneOfPrevious(disk'[IdxFile], i)]_vars

\* tombstone_document has just appended the tombstone of the second of two
\* written chunks, whose payload does not start the file.
C6_Witness ==
  /\ ret.op = "tombstone_document"
  /\ RecordCount(disk) = 3
  /\ RecordAt(disk[IdxFile], 1)[113] = 1
  /\ RecordAt(disk[IdxFile], 2)[113] = 1
  /\ RecordAt(disk[IdxFile], 3)[113] = 0
  /\ SubSeq(RecordAt(disk[IdxFile], 3), 1, 112)
       = SubSeq(RecordAt(disk[IdxFile], 2), 1, 112)
  /\ UnpackRecord(RecordAt(disk[IdxFile], 2)).store_offset > 0

\* ------------------------------------------------------------------------
\* Claims about retrieval over a reloaded artifact
\* ------------------------------------------------------------------------
\* The chunk ids tombstoned before the open artifact was loaded.
TombstonedBeforeReload ==
  IF session.loaded THEN tombstoned \ session.tombstoned ELSE {}

\* C4: after tombstone_chunk(id) followed by a reload of the artifact, no
\* RetrievalResult returned by retrieve(query, top_k), for any query and any
\* top_k, has chunk_id = id.
C4_RetrieveExcludesTombstoned ==
  (ret.op = "retrieve" /\ ret.val.kind = "ok")
    => \A i \in 1..Len(ret.val.value) :
         ret.val.value[i].chunk_id \notin TombstonedBeforeReload

\* ------------------------------------------------------------------------
\* Claims about the manifest
\* ------------------------------------------------------------------------
RequiredFileSet == {RequiredFiles[i] : i \in 1..Len(RequiredFiles)}

\* The files the manifest in memory lists.
ListedFiles == {manifest[1].checksums[i].filename :
                  i \in 1..Len(manifest[1].checksums)}

\* The file is in the directory with the bytes it had when the manifest in
\* memory was created.
Untouched(name) ==
  /\ Exists(disk, name)
  /\ Exists(sealed, name)
  /\ FileBytes(disk, name) = FileBytes(sealed, name)

\* C7: validate_manifest returns True if and only if all four required files
\* exist and every file listed in manifest.checksums exists and re-hashes to
\* the stored digest; so it returns True for a manifest created over all four
\* files while they are as they were, and False once the content of a listed
\* file has changed or a required file is gone.
C7_StrictValidation ==
  ret.op = "validate_manifest" =>
    /\ ret.val.value
         = (/\ \A name \in RequiredFileSet : Exists(disk, name)
            /\ \A i \in 1..Len(manifest[1].checksums) :
                 LET entry == manifest[1].checksums[i]
                 IN  /\ Exists(disk, entry.filename)
                     /\ Sha256HexOfBytes(FileBytes(disk, entry.filename))
                          = entry.checksum)
    /\ (\A name \in RequiredFileSet : Untouched(name)) => ret.val.value
    /\ (\/ \E name \in ListedFiles : ~Untouched(name)
        \/ \E name \in RequiredFileSet : ~Exists(disk, name))
         => ~ret.val.value

\* A manifest created over all four files is validated after one byte of
\* chunks.bin was flipped, with every file still in place.
C7_Witness ==
  /\ ret.op = "validate_manifest"
  /\ ~ret.val.value
  /\ ListedFiles = RequiredFileSet
  /\ \A name \in RequiredFileSet : Exists(disk, name)
  /\ Len(disk[BinFile]) = Len(sealed[BinFile])
  /\ disk[BinFile] # sealed[BinFile]
  /\ \A name \in RequiredFileSet \ {BinFile} : Untouched(name)

\* C8: every manifest returned by create_manifest holds, for each of the four
\* required files, a checksum equal to the SHA-256 of the file's bytes at
\* creation time; no required file is left without a checksum.
C8_EveryRequiredFileHasChecksum ==
  manifest # None =>
    \A name \in RequiredFileSet :
      \E i \in 1..Len(manifest[1].checksums) :
        /\ manifest[1].checksums[i].filename = name
        /\ Exists(sealed, name)
        /\ manifest[1].checksums[i].checksum
             = Sha256HexOfBytes(FileBytes(sealed, name))

\* ------------------------------------------------------------------------
\* Claims about reads of a damaged store
\* ------------------------------------------------------------------------
\* C9: read_chunk never returns a Chunk whose bytes do not hash to the
\* checksum of its index record; when the checksum disagrees, when the
\* record's range [store_offset, store_offset + length) extends past the end
\* of chunks.bin, or when the payload is not a valid frame, the read fails
\* with an error and leaves the in-memory index and the files unchanged.
C9_CorruptReadsFail ==
  [][(/\ ret'.op = "read_chunk"
      /\ ret'.arg \in DOMAIN store.index
      /\ store.index[ret'.arg].is_active
      /\ Exists(disk, BinFile))
       => LET record == store.index[ret'.arg]
              frame == decompress_data(
                         Slice(disk[BinFile], record.store_offset,
                               record.store_offset + record.length))
          IN  /\ ret'.val.kind = "chunk"
                   => xxh32(Utf8Encode(ret'.val.value[1].text)) = record.checksum
              /\ (\/ record.store_offset + record.length > Len(disk[BinFile])
                  \/ ~frame.ok
                  \/ xxh32(frame.data) # record.checksum)
                   => /\ ret'.val.kind = "error"
                      /\ store' = store
                      /\ disk' = disk]_vars

\* ------------------------------------------------------------------------
\* Claims about the index record
\* ------------------------------------------------------------------------
\* The step is load_index right after _write_index_record appended a record.
LoadsAppendedRecord ==
  /\ ret.op = "_write_index_record"
  /\ ret'.op = "load_index"

\* The appended record is 141 bytes with the least significant byte of
\* store_offset at byte 96 and is_active at byte 112 (little-endian, no
\* padding), and load_index holds exactly its twelve fields, -1 read back as
\* an absent page.
RecoversEveryField ==
  LET record == ret.arg
      bytes == disk[IdxFile]
  IN  /\ Len(bytes) = 141
      /\ bytes[97] = record.store_offset % 256
      /\ bytes[113] = (IF record.is_active THEN 1 ELSE 0)
      /\ bytes[114] = record.offset_start % 256
      /\ DOMAIN store'.index = {record.chunk_id}
      /\ store'.index[record.chunk_id]
           = [doc_uid |-> record.doc_uid, doc_id |-> record.doc_id,
              store_offset |-> record.store_offset, length |-> record.length,
              checksum |-> record.checksum, is_active |-> record.is_active,
              offset_start |-> record.offset_start,
              offset_end |-> record.offset_end,
              chunk_index |-> record.chunk_index,
              page_start |-> IF record.page_start = -1 THEN None
                             ELSE Some(record.page_start),
              page_end |-> IF record.page_end = -1 THEN None
                           ELSE Some(record.page_end)]

EndsInNul(id) == id # <<>> /\ id[Len(id)] = "\\0"

\* C11 as stated: the index record is exactly 141 bytes, little-endian and
\* unpadded, and for any record whose ids are at most 32 UTF-8 bytes and
\* whose numeric fields fit their widths, appending it and unpacking it in
\* load_index recovers every one of its 12 fields, an absent page encoded as
\* -1 and decoded back to absent.
C11_AnyRecordRoundTrips ==
  [][LoadsAppendedRecord => RecoversEveryField]_vars

\* C11, amended: the same for records none of whose ids ends in U+0000.
C11_RecordRoundTrips ==
  [][(/\ LoadsAppendedRecord
      /\ ~EndsInNul(ret.arg.chunk_id)
      /\ ~EndsInNul(ret.arg.doc_uid)
      /\ ~EndsInNul(ret.arg.doc_id))
       => RecoversEveryField]_vars

\* A loaded record with a 16-character id, an absent page_start and a
\* present page_end.
C11_Witness ==
  /\ ret.op = "load_index"
  /\ Exists(disk, IdxFile)
  /\ \E id \in DOMAIN store.index :
       /\ Len(id) = 16
       /\ ~store.index[id].is_active
       /\ store.index[id].page_start = None
       /\ store.index[id].page_end = Some(2147483647)
       /\ store.index[id].store_offset = 2147483647

\* ------------------------------------------------------------------------
\* Claims about fetch_chunks
\* ------------------------------------------------------------------------
\* The id has a live record in the open store's index.
IsLive(chunk_id) ==
  /\ chunk_id \in DOMAIN store.index
  /\ store.index[chunk_id].is_active

\* C12: fetch_chunks(ids) returns, in input order, exactly the chunks of
\* the input ids that are in the store index and live; unknown and
\* tombstoned ids are skipped without an error and do not keep the other
\* ids from being returned.
C12_FetchSkipsUnknownAndTombstoned ==
  ret.op = "fetch_chunks"
    => LET live == SelectSeq(ret.arg, IsLive)
       IN  /\ ret.val.kind = "chunks"
           /\ Len(ret.val.value) = Len(live)
           /\ \A k \in 1..Len(live) :
                LET chunk == ret.val.value[k]
                    record == store.index[live[k]]
                IN  /\ chunk.chunk_id = live[k]
                    /\ chunk.doc_uid = record.doc_uid
                    /\ chunk.doc_id = record.doc_id
                    /\ chunk.offset_start = record.offset_start
                    /\ chunk.offset_end = record.offset_end
                    /\ written[live[k]] # <<>>
                    /\ chunk.text
                         = written[live[k]][Len(written[live[k]])].text

\* A fetch of a tombstoned id followed by a live one returns the live chunk
\* alone.
C12_Witness ==
  /\ ret.op = "fetch_chunks"
  /\ Len(ret.arg) = 2
  /\ ret.arg[1] \in DOMAIN store.index
  /\ ~IsLive(ret.arg[1])
  /\ IsLive(ret.arg[2])
  /\ Len(ret.val.value) = 1
  /\ ret.val.value[1].chunk_id = ret.arg[2]

\* ------------------------------------------------------------------------
\* Claims about BM25Index.search
\* ------------------------------------------------------------------------
\* The corpus position of an indexed chunk id (the ids of a build differ).
CorpusPosition(chunk_id) ==
  CHOOSE p \in 1..Len(bm25.chunk_ids) : bm25.chunk_ids[p] = chunk_id

\* C13: search returns (chunk_id, score) pairs in non-increasing score
\* order, the lower corpus position first among equal scores; for a query
\* with at least one token and top_k >= 0 exactly min(top_k, N) pairs from
\* distinct corpus positions, and an empty list for a query without tokens.
C13_SearchOrder ==
  (ret.op = "retrieve_ids" /\ bm25.built)
    => LET hits == ret.val.value
           N == Len(bm25.chunk_ids)
       IN  /\ ret.val.kind = "ok"
           /\ \A k \in 1..Len(hits) :
                \E p \in 1..N : bm25.chunk_ids[p] = hits[k].chunk_id
           /\ \A k \in 1..(Len(hits) - 1) :
                \/ hits[k].score > hits[k + 1].score
                \/ /\ hits[k].score = hits[k + 1].score
                   /\ CorpusPosition(hits[k].chunk_id)
                        < CorpusPosition(hits[k + 1].chunk_id)
           /\ \A k, l \in 1..Len(hits) :
                k # l => CorpusPosition(hits[k].chunk_id)
                           # CorpusPosition(hits[l].chunk_id)
           /\ IF tokenize_query(bm25.use_stopwords, ret.arg.query) = <<>>
                THEN hits = <<>>
                ELSE Len(hits) = Min(ret.arg.top_k, N)

\* A search over two chunks that score the same, above zero, and come back
\* in corpus order.
C13_Witness ==
  /\ ret.op = "retrieve_ids"
  /\ bm25.built
  /\ Len(ret.val.value) = 2
  /\ ret.val.value[1].score = ret.val.value[2].score
  /\ ret.val.value[1].score > 0
  /\ ret.val.value[1].chunk_id = bm25.chunk_ids[1]
  /\ ret.val.value[2].chunk_id = bm25.chunk_ids[2]

\* ------------------------------------------------------------------------
\* Claims about retrieve
\* ------------------------------------------------------------------------
\* C14: on the same loaded artifact, the (chunk_id, score) pairs carried by
\* the results of retrieve(query, top_k) are the sequence retrieve_ids(query,
\* top_k) returns: scores pass through unmodified and no hit is added,
\* dropped or reordered when chunks are materialised.
C14_RetrieveCarriesRetrieveIds ==
  ret.op = "retrieve"
    => LET ids == retrieve_ids(bm25, ret.arg.query, ret.arg.top_k)
       IN  /\ ret.val.kind = ids.kind
           /\ ids.kind = "ok"
                => /\ Len(ret.val.value) = Len(ids.value)
                   /\ \A k \in 1..Len(ids.value) :
                        /\ ret.val.value[k].chunk_id = ids.value[k].chunk_id
                        /\ ret.val.value[k].score = ids.value[k].score

\* A retrieve of two hits the second of which has no readable chunk.
C14_Witness ==
  /\ ret.op = "retrieve"
  /\ ret.val.kind = "ok"
  /\ Len(ret.val.value) = 2
  /\ ret.val.value[1].score > ret.val.value[2].score
  /\ read_chunk(store, disk, ret.val.value[1].chunk_id).kind = "chunk"
  /\ read_chunk(store, disk, ret.val.value[2].chunk_id).kind = "none"

\* ------------------------------------------------------------------------
\* Claims about concurrent readers
\* ------------------------------------------------------------------------
\* What the call returns when it runs alone on the state as it is.
RunAlone(op, arg) ==
  CASE op = "retrieve" -> retrieve(bm25, store, disk, arg.query, arg.top_k)
    [] op = "retrieve_ids" -> retrieve_ids(bm25, arg.query, arg.top_k)
    [] op = "fetch_chunks" -> fetch_chunks(store, disk, arg)
    [] op = "read_chunk" -> read_chunk(store, disk, arg)

\* C15: retrieve_ids, retrieve, fetch_chunks and read_chunk leave the store
\* index, the doc maps, the BM25 structures and every artifact file
\* unchanged, and retrieve_ids reads no byte of chunks.bin; so readers that
\* interleave return what each would return running alone.
C15_ReadersDoNotInterfere ==
  [][\A r \in DOMAIN readers :
       (\/ readers'[r].pc # readers[r].pc
        \/ Len(readers'[r].todo) # Len(readers[r].todo))
         => /\ store' = store
            /\ bm25' = bm25
            /\ disk' = disk
            /\ readers'[r].pc = "done"
                 => /\ Result(readers'[r].kind, readers'[r].out)
                         = RunAlone(readers'[r].op, readers'[r].arg)
                    /\ readers'[r].op = "retrieve_ids"
                         => readers'[r].bin_reads = 0]_vars

\* One reader has returned from retrieve with two results, both read from
\* chunks.bin, while the other is between the two reads of its fetch_chunks.
C15_Witness ==
  /\ readers[1].pc = "done"
  /\ readers[1].op = "retrieve"
  /\ readers[1].bin_reads = 2
  /\ Len(readers[1].out) = 2
  /\ readers[2].pc = "run"
  /\ readers[2].op = "fetch_chunks"
  /\ Len(readers[2].todo) = 1
  /\ Len(readers[2].out) = 1

C17_TombstoneDocument ==
  [][ret'.op = "tombstone_document"
       => LET doc_uid == ret'.arg
              reloaded == load_index(EmptyStore, disk')
              before == load_index(EmptyStore, disk)
          IN  /\ DOMAIN store'.index = DOMAIN store.index
              /\ \A id \in DOMAIN store.index :
                   IF store.index[id].doc_uid = doc_uid
                     THEN /\ ~store'.index[id].is_active
                          /\ read_chunk(store', disk', id).kind = "none"
                          /\ id \in DOMAIN reloaded.index
                          /\ read_chunk(reloaded, disk', id).kind = "none"
                     ELSE store'.index[id] = store.index[id]
              /\ DOMAIN reloaded.index = DOMAIN before.index
              /\ \A id \in DOMAIN before.index :
                   before.index[id].doc_uid # doc_uid
                     => reloaded.index[id] = before.index[id]
              /\ doc_uid \notin DOMAIN store.doc_uid_to_chunks
                   => store' = store /\ disk' = disk]_vars

\* tombstone_document has just made both chunks of a.txt inactive and left
\* the chunk of the other document live.
C17_Witness ==
  /\ ret.op = "tombstone_document"
  /\ Cardinality({id \in DOMAIN store.index :
                    /\ store.index[id].doc_uid = ret.arg
                    /\ ~store.index[id].is_active}) = 2
  /\ \E id \in DOMAIN store.index :
       /\ store.index[id].doc_uid # ret.arg
       /\ store.index[id].is_active
       /\ read_chunk(store, disk, id).kind = "chunk"

\* ------------------------------------------------------------------------
\* Claims about normalization and identifiers
\* ------------------------------------------------------------------------
\* C18: normalize_text is idempotent, and its output has no leading or
\* trailing whitespace, no tab, no CR and no two adjacent spaces (CRLF and a
\* lone CR each become one LF, a run of spaces and tabs becomes one space).
C18_NormalizeIdempotent ==
  ret.op = "normalize_text"
    => LET out == ret.val
       IN  /\ normalize_text(out) = out
           /\ out # <<>> => ~IsSpace(out[1]) /\ ~IsSpace(out[Len(out)])
           /\ \A i \in 1..Len(out) : out[i] \notin {"\t", "\r", "\\xa0"}
           /\ \A i \in 1..(Len(out) - 1) : ~(out[i] = " " /\ out[i + 1] = " ")
           /\ Len(out) <= Len(ret.arg)

\* A text with a tab next to a space in the middle and a CRLF at the end:
\* the run is one space and the line end is stripped.
C18_Witness ==
  /\ ret.op = "normalize_text"
  /\ ret.arg = <<"a", "\t", " ", "a">>
  /\ ret.val = <<"a", " ", "a">>
  /\ normalize_text(<<"a", "\r", "\n", "a">>) = <<"a", "\n", "a">>
  /\ normalize_text(<<"a", "\r", "a", "\r">>) = <<"a", "\n", "a">>

\* The characters of a lowercase hex digest.
IsHexId(id) ==
  /\ Len(id) = 16
  /\ \A i \in 1..16 : \E h \in 1..16 : id[i] = HexChars[h]

\* C19: generate_doc_uid, generate_doc_id and generate_chunk_id are
\* deterministic and return 16 lowercase hex characters; doc_uid depends on
\* the relative path alone and not on the text, doc_id is determined by
\* doc_uid and the hash of the normalized text, and chunk_id by doc_uid, the
\* offsets and the chunk text, not by doc_id or chunk_index.
C19_IdsAreFunctionsOfTheirInputs ==
  ret.op = "ingest"
    => LET one == ret.val[1]
           two == ret.val[2]
       IN  /\ \A k \in 1..2 :
                /\ IsHexId(ret.val[k].document.doc_uid)
                /\ IsHexId(ret.val[k].document.doc_id)
                /\ \A i \in 1..Len(ret.val[k].chunks) :
                     IsHexId(ret.val[k].chunks[i].chunk_id)
           /\ (one.rel_path = two.rel_path /\ one.raw_text = two.raw_text)
                => one = two
           /\ one.rel_path = two.rel_path
                => one.document.doc_uid = two.document.doc_uid
           /\ (/\ one.document.doc_uid = two.document.doc_uid
               /\ Sha256Hex(one.document.normalized_text)
                    = Sha256Hex(two.document.normalized_text))
                => one.document.doc_id = two.document.doc_id
           /\ \A i \in 1..Len(one.chunks) : \A j \in 1..Len(two.chunks) :
                (/\ one.chunks[i].doc_uid = two.chunks[j].doc_uid
                 /\ one.chunks[i].offset_start = two.chunks[j].offset_start
                 /\ one.chunks[i].offset_end = two.chunks[j].offset_end
                 /\ one.chunks[i].text = two.chunks[j].text)
                  => one.chunks[i].chunk_id = two.chunks[j].chunk_id

\* The same path with two texts that share their first chunk: one doc_uid,
\* two doc_ids, and the same chunk_id for the shared chunk.
C19_Witness ==
  /\ ret.op = "ingest"
  /\ ret.val[1].rel_path = ret.val[2].rel_path
  /\ ret.val[1].document.doc_uid = ret.val[2].document.doc_uid
  /\ ret.val[1].document.doc_id # ret.val[2].document.doc_id
  /\ Len(ret.val[1].chunks) = 2
  /\ Len(ret.val[2].chunks) = 1
  /\ ret.val[1].chunks[1].chunk_id = ret.val[2].chunks[1].chunk_id
  /\ ret.val[1].chunks[1].doc_id # ret.val[2].chunks[1].doc_id

\* ------------------------------------------------------------------------
\* Claims about matched terms
\* ------------------------------------------------------------------------
\* C20: for every RetrievalResult of retrieve whose chunk is readable,
\* matched_terms is the sorted, duplicate-free list of exactly the tokens
\* that occur both in the tokenized query and in the tokenized chunk text,
\* both tokenized by the index's tokenizer; so it holds only tokens of the
\* query.
C20_MatchedTerms ==
  (ret.op = "retrieve" /\ ret.val.kind = "ok")
    => \A k \in 1..Len(ret.val.value) :
         LET result == ret.val.value[k]
             read == read_chunk(store, disk, result.chunk_id)
             query_tokens == tokenize(bm25.use_stopwords, ret.arg.query)
             chunk_tokens == tokenize(bm25.use_stopwords, read.value[1].text)
             terms == result.matched_terms
         IN  read.kind = "chunk"
               => /\ \A t \in 1..Len(terms) :
                       /\ \E i \in 1..Len(query_tokens) :
                            query_tokens[i] = terms[t]
                       /\ \E i \in 1..Len(chunk_tokens) :
                            chunk_tokens[i] = terms[t]
                  /\ \A i \in 1..Len(query_tokens) :
                       \A j \in 1..Len(chunk_tokens) :
                         query_tokens[i] = chunk_tokens[j]
                           => \E t \in 1..Len(terms) :
                                terms[t] = query_tokens[i]
                  /\ \A t \in 1..(Len(terms) - 1) :
                       StrLess(terms[t], terms[t + 1])

\* The query "b a b" against the chunk "a B": both words match, each once,
\* "a" first.
C20_Witness ==
  /\ ret.op = "retrieve"
  /\ ret.arg.query = <<"b", " ", "a", " ", "b">>
  /\ ret.val.kind = "ok"
  /\ \E k \in 1..Len(ret.val.value) :
       LET read == read_chunk(store, disk, ret.val.value[k].chunk_id)
       IN  /\ read.kind = "chunk"
           /\ read.value[1].text = <<"a", " ", "B">>
           /\ ret.val.value[k].matched_terms = <<<<"a">>, <<"b">>>>

\* ------------------------------------------------------------------------
\* Claims about score display
\* ------------------------------------------------------------------------
\* The least raw score of a non-empty result list.
MinScore(results) ==
  CHOOSE s \in {results[i].score : i \in 1..Len(results)} :
    \A i \in 1..Len(results) : s <= results[i].score

WithoutPartialRecord(dir) ==
  IF ~Exists(dir, IdxFile) THEN dir
  ELSE DictPut(dir, IdxFile,
               SubSeq(dir[IdxFile], 1, RecordCount(dir) * INDEX_RECORD_SIZE))

\* C22: write_chunk appends the payload to chunks.bin, at store_offset = the
\* size of chunks.bin before the write, before it appends the record to
\* chunks.idx; so in every intermediate state of a single-writer run, a
\* stop between or during the two appends included, every complete record
\* of chunks.idx has store_offset + length <= size(chunks.bin), the records
\* of distinct writes reference disjoint adjacent byte ranges, no bytes of
\* two records are interleaved, and load_index ignores a trailing partial
\* record.
C22_PayloadBeforeRecord ==
  LET idx == DictGet(disk, IdxFile, <<>>)
      n == RecordCount(disk)
      Rec(i) == UnpackRecord(RecordAt(idx, i))
      running == ret.op = "write_chunk" /\ ret.val.kind = "running"
  IN  /\ \A i \in 1..n :
           /\ Rec(i).store_offset + Rec(i).length <= FileSize(disk, BinFile)
           /\ Rec(i).store_offset
                = IF i = 1 THEN 0
                  ELSE Rec(i - 1).store_offset + Rec(i - 1).length
           /\ Rec(i).length > 0
           /\ \E chunk \in StoreChunks :
                /\ RecordAt(idx, i)
                     = PackRecord(chunk.chunk_id, chunk.doc_uid, chunk.doc_id,
                                  Rec(i).store_offset,
                                  Len(compress_data(Utf8Encode(chunk.text))),
                                  xxh32(Utf8Encode(chunk.text)), TRUE,
                                  chunk.offset_start, chunk.offset_end,
                                  chunk.chunk_index,
                                  OptToInt(chunk.page_start),
                                  OptToInt(chunk.page_end))
                /\ SubSeq(disk[BinFile], Rec(i).store_offset + 1,
                          Rec(i).store_offset + Rec(i).length)
                     = compress_data(Utf8Encode(chunk.text))
      /\ Len(idx) > n * INDEX_RECORD_SIZE
           => /\ running
              /\ ret.arg.bin_todo = <<>>
              /\ SubSeq(idx, n * INDEX_RECORD_SIZE + 1, Len(idx))
                 \o ret.arg.idx_todo
                   = PackRecord(ret.arg.chunk.chunk_id, ret.arg.chunk.doc_uid,
                                ret.arg.chunk.doc_id,
                                FileSize(ret.arg.before, BinFile),
                                Len(ret.arg.compressed_data), ret.arg.checksum,
                                TRUE, ret.arg.chunk.offset_start,
                                ret.arg.chunk.offset_end,
                                ret.arg.chunk.chunk_index,
                                OptToInt(ret.arg.chunk.page_start),
                                OptToInt(ret.arg.chunk.page_end))
      /\ (running /\ ret.arg.bin_todo # <<>>)
           => Len(idx) = Len(DictGet(ret.arg.before, IdxFile, <<>>))
      /\ (running /\ ret.arg.bin_todo = <<>> /\ ret.arg.idx_todo = <<>>)
           => disk = write_chunk(store, ret.arg.before, ret.arg.chunk,
                                 ret.arg.compressed_data,
                                 ret.arg.checksum).dir
      /\ load_index(EmptyStore, disk)
           = load_index(EmptyStore, WithoutPartialRecord(disk))
      /\ \A id \in DOMAIN load_index(EmptyStore, disk).index :
           \E i \in 1..n : RecordChunkId(RecordAt(idx, i)) = id

\* A writer stopped inside its second record: one complete record and part
\* of the next in chunks.idx, both payloads complete in chunks.bin, and a
\* fresh instance loads the first record alone.
C22_Witness ==
  /\ ret.op = "write_chunk" /\ ret.val.kind = "running"
  /\ RecordCount(disk) = 1
  /\ Len(disk[IdxFile]) = INDEX_RECORD_SIZE + 40
  /\ ret.arg.chunk.chunk_id # RecordChunkId(RecordAt(disk[IdxFile], 1))
  /\ FileSize(disk, BinFile)
       = FileSize(ret.arg.before, BinFile) + Len(ret.arg.compressed_data)
  /\ DOMAIN load_index(EmptyStore, disk).index
       = {RecordChunkId(RecordAt(disk[IdxFile], 1))}

\* ------------------------------------------------------------------------
\* Claims about the store's memory and its files
\* ------------------------------------------------------------------------
\* C23: after any sequence of write_chunk, tombstone_chunk and
\* tombstone_document calls on one ChunkStore instance, writing one chunk_id
\* twice and tombstoning a tombstoned chunk included, the map chunk_id ->
\* record and the map doc_uid -> chunk ids it holds in memory are the maps a
\* fresh ChunkStore gets by load_index from the files on disk.
C23_MemoryIsWhatLoadIndexGives ==
  LET fresh == load_index(EmptyStore, disk)
  IN  /\ store.index = fresh.index
      /\ store.doc_uid_to_chunks = fresh.doc_uid_to_chunks

\* ------------------------------------------------------------------------
\* Claims about tombstones and the manifest
\* ------------------------------------------------------------------------
\* C24: tombstone_chunk and tombstone_document never rewrite manifest.json:
\* on an artifact whose manifest validates, tombstoning a known chunk extends
\* chunks.idx by one record per call and leaves chunks.bin, docs.meta, the
\* BM25 index file and manifest.json byte-identical, so validate_manifest
\* against the build-time manifest returns False from then on, until a new
\* manifest is created.
C24_TombstoneInvalidatesManifest ==
  /\ [][(ret'.op \in {"tombstone_chunk", "tombstone_document"}
         /\ manifest # None)
          => LET idx == Bytes(disk, IdxFile)
                 calls == IF ret'.op = "tombstone_chunk"
                            THEN (IF ret'.arg \in DOMAIN store.index
                                    THEN 1 ELSE 0)
                            ELSE Len(DictGet(store.doc_uid_to_chunks,
                                             ret'.arg, <<>>))
             IN  /\ manifest' = manifest
                 /\ \A name \in {BinFile, MetaFile, Bm25File, ManifestFile} :
                      /\ Exists(disk', name) = Exists(disk, name)
                      /\ Exists(disk, name) => disk'[name] = disk[name]
                 /\ IsPrefix(idx, Bytes(disk', IdxFile))
                 /\ Len(Bytes(disk', IdxFile))
                      = Len(idx) + calls * INDEX_RECORD_SIZE
                 /\ (calls > 0 /\ validate_manifest(manifest[1], disk))
                      => ~validate_manifest(manifest[1], disk')]_vars
  /\ []((/\ manifest # None
         /\ validate_manifest(manifest[1], sealed)
         /\ Len(Bytes(disk, IdxFile)) > Len(Bytes(sealed, IdxFile)))
          => ~validate_manifest(manifest[1], disk))

\* A built artifact whose manifest validated before a chunk was tombstoned
\* and is validated again after it: chunks.idx is one record longer than at
\* build time and the validation returns False.
C24_Witness ==
  /\ ret.op = "validate_manifest"
  /\ ~ret.val.value
  /\ validate_manifest(manifest[1], sealed)
  /\ disk[ManifestFile] = save_manifest(sealed, manifest[1])[ManifestFile]
  /\ disk[BinFile] = sealed[BinFile]
  /\ RecordCount(disk) = RecordCount(sealed) + 1
  /\ tombstoned # {}

\* ------------------------------------------------------------------------
\* Claims about chunk boundaries
\* ------------------------------------------------------------------------
\* The configurations the chunker is specified for.
ValidConfig == ch_size >= 1 /\ 0 <= ch_overlap /\ ch_overlap < ch_size

\* C25: for chunk_size >= 1 and 0 <= chunk_overlap < chunk_size, offset_start
\* and offset_end both increase strictly from one emitted chunk to the next,
\* and the chunk_index values are 0, 1, 2, ... in emission order.
C25_OffsetsIncrease ==
  ValidConfig
    => /\ \A i \in 1..Len(ch_chunks) : ch_chunks[i].chunk_index = i - 1
       /\ \A i \in 1..(Len(ch_chunks) - 1) :
            /\ ch_chunks[i].offset_start < ch_chunks[i + 1].offset_start
            /\ ch_chunks[i].offset_end < ch_chunks[i + 1].offset_end
       /\ \A i, j \in 1..Len(ch_chunks) :
            i # j => <<ch_chunks[i].offset_start, ch_chunks[i].offset_end>>
                       # <<ch_chunks[j].offset_start, ch_chunks[j].offset_end>>

\* Two chunks of two words that share the word in the middle.
C25_Witness ==
  /\ ch_pc = "done"
  /\ ch_size = 2 /\ ch_overlap = 1
  /\ Len(ch_chunks) = 2
  /\ ch_chunks[2].chunk_index = 1
  /\ ch_chunks[2].offset_start < ch_chunks[1].offset_end
  /\ ch_chunks[2].offset_start > ch_chunks[1].offset_start
  /\ ch_chunks[2].offset_end > ch_chunks[1].offset_end

\* Position p of the text is where a word starts.
IsWordStart(text, p) ==
  /\ p < Len(text)
  /\ ~IsSpace(At(text, p))
  /\ p = 0 \/ IsSpace(At(text, p - 1))

\* Position p of the text is where a word ends.
IsWordEnd(text, p) ==
  /\ p > 0
  /\ ~IsSpace(At(text, p - 1))
  /\ p = Len(text) \/ IsSpace(At(text, p))

\* C26: for chunk_size >= 1 and 0 <= chunk_overlap < chunk_size, every
\* non-final chunk holds exactly chunk_size words and ends at the end of a
\* word, the final chunk holds between 1 and chunk_size words, and every
\* chunk after the first begins at the start of the chunk_overlap-th word
\* counted backwards from the previous chunk's end (at that end when
\* chunk_overlap is 0), so consecutive chunks share exactly chunk_overlap
\* words.
C26_WordsPerChunk ==
  ValidConfig
    => LET text == ch_doc.normalized_text
           n == Len(ch_chunks)
       IN  /\ \A i \in 1..n :
                (i < n \/ ch_pc = "loop")
                  => /\ CountWords(ch_chunks[i].text) = ch_size
                     /\ IsWordEnd(text, ch_chunks[i].offset_end)
           /\ (ch_pc = "done" /\ n > 0)
                => /\ CountWords(ch_chunks[n].text) >= 1
                   /\ CountWords(ch_chunks[n].text) <= ch_size
           /\ \A i \in 1..(n - 1) :
                LET previous_end == ch_chunks[i].offset_end
                    start == ch_chunks[i + 1].offset_start
                IN  /\ ch_overlap = 0 => start = previous_end
                    /\ ch_overlap > 0 => IsWordStart(text, start)
                    /\ start <= previous_end
                    /\ CountWords(Slice(text, start, previous_end))
                         = ch_overlap

\* Three words chunked two at a time with one word of overlap: the second
\* chunk starts at the second word and both chunks hold two words.
C26_Witness ==
  /\ ch_pc = "done"
  /\ ch_size = 2 /\ ch_overlap = 1
  /\ Len(ch_chunks) = 2
  /\ CountWords(ch_chunks[1].text) = 2
  /\ CountWords(ch_chunks[2].text) = 2
  /\ ch_chunks[2].offset_start = 2
  /\ ch_chunks[1].offset_end = 3
  /\ ch_doc.normalized_text = <<"a", " ", "a", " ", "a">>

\* C27: for chunk_size >= 1 and 0 <= chunk_overlap < chunk_size, the chunks
\* of a document that holds a word cover its normalized_text without gaps:
\* the first starts at 0, the last ends at len(normalized_text), and each
\* later chunk starts at or before the end of the one before; a document
\* whose normalized_text holds no word yields no chunks.
C27_ChunksCoverText ==
  ValidConfig
    => LET text == ch_doc.normalized_text
           n == Len(ch_chunks)
       IN  /\ n > 0 => ch_chunks[1].offset_start = 0
           /\ \A i \in 1..(n - 1) :
                ch_chunks[i + 1].offset_start <= ch_chunks[i].offset_end
           /\ ch_pc = "done"
                => /\ CountWords(text) = 0 <=> n = 0
                   /\ n > 0 => ch_chunks[n].offset_end = Len(text)
                   /\ \A p \in 0..(Len(text) - 1) :
                        n > 0 => \E i \in 1..n :
                                   /\ ch_chunks[i].offset_start <= p
                                   /\ p < ch_chunks[i].offset_end

\* A text that begins and ends with a space chunked one word at a time: the
\* first chunk starts at 0 with the space, the last ends with the text.
C27_Witness ==
  /\ ch_pc = "done"
  /\ ch_size = 1 /\ ch_overlap = 0
  /\ ch_doc.normalized_text = <<" ", "a", " ", "a", " ">>
  /\ Len(ch_chunks) = 2
  /\ ch_chunks[1].offset_start = 0
  /\ ch_chunks[2].offset_start = ch_chunks[1].offset_end
  /\ ch_chunks[2].offset_end = 5

\* ------------------------------------------------------------------------
\* Claims about validate_invariants
\* ------------------------------------------------------------------------
\* The size of chunks.bin, a missing file counting as size 0.
BinSize(dir) == IF Exists(dir, BinFile) THEN Len(dir[BinFile]) ELSE 0

\* The live records whose payload range ends beyond chunks.bin.
LiveBeyondBin(s, dir) ==
  {chunk_id \in DOMAIN s.index :
     /\ s.index[chunk_id].is_active
     /\ s.index[chunk_id].store_offset + s.index[chunk_id].length
          > BinSize(dir)}

\* C28: validate_invariants returns one error for exactly each live record
\* with store_offset + length > size(chunks.bin), a missing chunks.bin
\* counting as size 0, and none for a tombstoned record; so the list is
\* empty if and only if every live record's range lies within chunks.bin.
C28_ErrorsForEveryRecordBeyondBin ==
  ret.op = "validate_invariants"
    => /\ ret.val.value = LiveBeyondBin(store, disk)
       /\ ret.val.value = {} <=> LiveBeyondBin(store, disk) = {}

\* C28, the part that holds: validate_invariants changes no state, reports
\* only live records, and while chunks.bin exists reports exactly the live
\* records whose range ends beyond it.
C28_ErrorsWhileBinExists ==
  /\ [][ret'.op = "validate_invariants" => UNCHANGED <<store, disk>>]_vars
  /\ [](ret.op = "validate_invariants"
          => /\ \A chunk_id \in ret.val.value :
                  /\ chunk_id \in DOMAIN store.index
                  /\ store.index[chunk_id].is_active
             /\ Exists(disk, BinFile)
                  => ret.val.value = LiveBeyondBin(store, disk)
             /\ ~Exists(disk, BinFile) => ret.val.value = {})

\* validate_invariants has reported a live record that ends beyond a
\* chunks.bin that exists, next to a tombstoned record it does not report.
C28_Witness ==
  /\ ret.op = "validate_invariants"
  /\ Exists(disk, BinFile)
  /\ ret.val.value # {}
  /\ \E chunk_id \in DOMAIN store.index : ~store.index[chunk_id].is_active

\* ------------------------------------------------------------------------
\* Claims about page ranges
\* ------------------------------------------------------------------------
\* The page numbers of the pages whose half-open interval shares a character
\* position with [offset_start, offset_end).
PagesSharingAPosition(pages, offset_start, offset_end) ==
  {pages[i].page_number : i \in {j \in 1..Len(pages) :
     \E p \in 0..MaxTextLen :
       /\ pages[j].offset_start <= p /\ p < pages[j].offset_end
       /\ offset_start <= p /\ p < offset_end}}

\* The smallest and the largest number of a set of page numbers, both absent
\* for the empty set.
PageSpan(numbers) ==
  IF numbers = {} THEN <<None, None>>
  ELSE <<Some(CHOOSE n \in numbers : \A other \in numbers : n <= other),
         Some(CHOOSE n \in numbers : \A other \in numbers : n >= other)>>

\* C29: for pages in increasing page_number order with non-overlapping,
\* possibly empty intervals, every chunk's page_start and page_end are the
\* smallest and the largest page_number among the pages whose interval shares
\* a character position with the chunk, and both are absent when there is no
\* such page.
C29_PageRange ==
  \A i \in 1..Len(ch_chunks) :
    <<ch_chunks[i].page_start, ch_chunks[i].page_end>>
      = PageSpan(PagesSharingAPosition(ch_doc.pages, ch_chunks[i].offset_start,
                                       ch_chunks[i].offset_end))

\* C29, the part that holds: the same for the documents none of whose pages
\* is empty, and for every document the range is absent or page_start <=
\* page_end, both numbers of pages of the document.
C29_PageRangeWithoutEmptyPages ==
  \A i \in 1..Len(ch_chunks) :
    LET pages == ch_doc.pages
        chunk == ch_chunks[i]
        numbers == {pages[j].page_number : j \in 1..Len(pages)}
    IN  /\ (\A j \in 1..Len(pages) :
              pages[j].offset_start < pages[j].offset_end)
             => <<chunk.page_start, chunk.page_end>>
                  = PageSpan(PagesSharingAPosition(pages, chunk.offset_start,
                                                   chunk.offset_end))
        /\ chunk.page_start = None <=> chunk.page_end = None
        /\ chunk.page_start # None
             => /\ chunk.page_start[1] \in numbers
                /\ chunk.page_end[1] \in numbers
                /\ chunk.page_start[1] <= chunk.page_end[1]
        /\ pages = <<>> => chunk.page_start = None

\* Two chunks of a two-page document: the first lies on page 1, the second
\* spans the end of page 1 and page 2.
C29_Witness ==
  /\ ch_pc = "done"
  /\ Len(ch_doc.pages) = 2
  /\ \A j \in 1..2 : ch_doc.pages[j].offset_start < ch_doc.pages[j].offset_end
  /\ Len(ch_chunks) = 2
  /\ ch_chunks[1].page_start = Some(1) /\ ch_chunks[1].page_end = Some(1)
  /\ ch_chunks[2].page_start = Some(1) /\ ch_chunks[2].page_end = Some(2)

\* ------------------------------------------------------------------------
\* Claims about normalize_path
\* ------------------------------------------------------------------------
\* The segments of a path, whichever separator it uses.
Segments(path) ==
  SplitSlash(SubSeq([i \in 1..Len(path) |->
                       IF path[i] = "\\" THEN "/" ELSE path[i]],
                    1, Len(path)), 1, <<>>)

\* The paths that differ from the given one only in which separator stands
\* at each place.
SeparatorVariants(path) ==
  {q \in [1..Len(path) -> {"a", ".", "/", "\\"}] :
     \A i \in 1..Len(path) :
       IF path[i] \in {"/", "\\"} THEN q[i] \in {"/", "\\"}
       ELSE q[i] = path[i]}

\* The paths made from the given one by inserting the given segments before
\* one of its segments or after the last.
WithSegmentsInserted(path, extra) ==
  LET parts == Segments(path)
  IN  {JoinSlash(SubSeq(parts, 1, k) \o extra
                   \o SubSeq(parts, k + 1, Len(parts))) :
         k \in 0..Len(parts)}

\* C30: normalize_path turns every backslash into a slash, removes every "."
\* segment and resolves ".." against the segment before it; its output has
\* no backslash and no "." or ".." segment, normalizing it again changes
\* nothing, and paths that differ only by separators, "." segments or
\* resolvable ".." segments get the same doc_uid.
C30_NormalizePath ==
  ret.op = "normalize_path"
    => LET rel_path == ret.arg
           out == ret.val
           parts == Segments(rel_path)
       IN  /\ \A i \in 1..Len(out) : out[i] # "\\"
           /\ \A i \in 1..Len(Segments(out)) :
                Segments(out)[i] \notin {<<".">>, <<".", ".">>}
           /\ normalize_path(out) = out
           /\ (\A i \in 1..Len(parts) :
                 parts[i] \notin {<<".">>, <<".", ".">>})
                => out = JoinSlash(parts)
           /\ \A q \in SeparatorVariants(rel_path) :
                /\ normalize_path(q) = out
                /\ generate_doc_uid(q) = generate_doc_uid(rel_path)
           /\ \A q \in WithSegmentsInserted(rel_path, <<<<".">>>>)
                         \cup WithSegmentsInserted(rel_path,
                                                   <<<<"b">>, <<".", ".">>>>) :
                /\ normalize_path(q) = out
                /\ generate_doc_uid(q) = generate_doc_uid(rel_path)

\* A path with a backslash, a "." segment at each end and a name between
\* them has been normalized to the name.
C30_Witness ==
  /\ ret.op = "normalize_path"
  /\ ret.arg = <<".", "\\", "a", "/", ".">>
  /\ ret.val = <<"a">>

====
